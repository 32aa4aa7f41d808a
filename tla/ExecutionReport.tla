---------------------------- MODULE ExecutionReport ----------------------------
(***************************************************************************)
(* What is reported of the execution table of one pair session: its summary *)
(* row (hbt_backtest.py), and the entry/exit and second-leg failure tables  *)
(* of full_market_runner.py.  A table is a sequence of rows                 *)
(* [signal, status, at, done, fills] as PairExecution appends them: the     *)
(* time of its event, the time it was appended, and the fill columns first, *)
(* second and flatten, as many of them as the row has.                      *)
(***************************************************************************)
EXTENDS Integers, Sequences, FiniteSets, FiniteSetsExt

Filled(r, i) == Len(r.fills) >= i /\ r.fills[i].filled

(* The summary row and the failure report each name the statuses they count. *)
SummaryFailures ==
    {"SECOND_LEG_UNFILLED", "SECOND_LEG_PROFIT_CHECK_FAILED", "POST_FIRST_FEED_TIMEOUT"}

FailureStatusesUnfilled == {"SECOND_LEG_UNFILLED", "SECOND_LEG_PROFIT_CHECK_FAILED"}  \* mutant: a status not listed
FailureStatuses ==
    {"SECOND_LEG_UNFILLED", "SECOND_LEG_PROFIT_CHECK_FAILED", "POST_FIRST_FEED_TIMEOUT"}

(* Places of a table's rows with these statuses, and of its flattened rows.   *)
WithStatus(table, statuses) == {i \in DOMAIN table : table[i].status \in statuses}
Flattened(table) == {i \in DOMAIN table : Filled(table[i], 3)}

Summary(table) ==
    [rows |-> Len(table),
     filled |-> Cardinality(WithStatus(table, {"FILLED"})),
     failures |-> Cardinality(WithStatus(table, SummaryFailures)),
     flattened |-> Cardinality(Flattened(table))]

(* Entry and exit executions: every row is one of them, whatever became of it. *)
RowType(r) == IF r.signal = "EXIT" THEN "exit_execution" ELSE "entry_execution"
EntryExit(table) == [i \in DOMAIN table |-> [type |-> RowType(table[i]), status |-> table[i].status]]

-----------------------------------------------------------------------------
(* Second-leg failures. *)

(* The rows at these places by the time they ended; no stable sort is asked  *)
(* for, so that the order of the rows of one time is left open.              *)
Arranges(p, table, places) ==
    /\ {p[i] : i \in DOMAIN p} = places
    /\ \A i, j \in DOMAIN p : i < j => p[i] # p[j] /\ table[p[i]].done <= table[p[j]].done
Arrangement(table, places) == CHOOSE p \in [1..Cardinality(places) -> places] : Arranges(p, table, places)

InTime(table, places) ==
    LET p == Arrangement(table, places) IN [n \in 1..Cardinality(places) |-> table[p[n]]]

FailedTrades(table) == InTime(table, WithStatus(table, FailureStatuses))

(* The pair is listed, with its summary, when that counts a failure.         *)
FailedPairs(table) == IF Summary(table).failures > 0 THEN 1 ELSE 0

Overview(table) ==
    [pairs |-> FailedPairs(table), rows |-> Len(FailedTrades(table)),
     flattened |-> FailedPairs(table) * Summary(table).flattened]

(* The outer join of the summaries and the rows of a date.                  *)
ByDate(table) ==
    [failures |-> FailedPairs(table) * Summary(table).failures,
     rows |-> Len(FailedTrades(table)),
     flattened |-> FailedPairs(table) * Summary(table).flattened]

ByStatus(table) ==
    LET failed == FailedTrades(table) IN
    [status \in {failed[i].status : i \in DOMAIN failed} |-> Cardinality(WithStatus(failed, {status}))]

ByPair(table) ==
    LET failed == FailedTrades(table)
        times(status) == {failed[i].done : i \in WithStatus(failed, {status})}
    IN  [status \in DOMAIN ByStatus(table) |->
            [rows |-> ByStatus(table)[status], first |-> Min(times(status)), last |-> Max(times(status))]]

(* matching_position: the first row that ended at the time of the failure.  *)
MatchingPosition(table, r) ==
    CHOOSE i \in DOMAIN table :
        table[i].done = r.done /\ \A j \in DOMAIN table : table[j].done = r.done => i <= j

(* The rows around each failure, from and to positions in the sorted table. *)
TradeWindows(table, width) ==
    LET sorted == InTime(table, DOMAIN table)
        failed == FailedTrades(table)
    IN  [n \in DOMAIN failed |->
            LET position == MatchingPosition(sorted, failed[n])
            IN  [from |-> Max({1, position - width}), to |-> Min({Len(sorted), position + width})]]
=============================================================================
