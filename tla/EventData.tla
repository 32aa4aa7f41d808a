------------------------------ MODULE EventData ------------------------------
(***************************************************************************)
(* How the event data of a date's pairs are prepared before their backtests *)
(* (future_spot/arbitrage/full_market_runner.py, build_event_data): the     *)
(* date's spot rows are split by symbol, all futures are converted in one   *)
(* scan, each spot is converted when the first pair with it comes up, and   *)
(* the archives of the pairs with both legs are audited; or the compact     *)
(* cache of the date is built.  Files outlive the run: a run may raise or   *)
(* be killed anywhere, and another one takes up what it left behind.        *)
(***************************************************************************)
EXTENDS Integers, FiniteSets, FiniteSetsExt

CONSTANTS
    Keys,           \* run keys of the date's pairs, in the order of the records
    SpotOf,         \* the spot symbol of each run key
    FutureOf,       \* the future symbol of each run key
    Requests,       \* values of [compact, rebuild, convert, daily, proceed]: is the
                    \* compact cache used; --rebuild-event-data; the negation of
                    \* --no-convert-missing-event-data; is there a CSV of the date;
                    \* --continue-on-error
    MaxRuns         \* bound on the runs, one after another

(* Run keys are strings in the code; here they are their places in the      *)
(* order of the records.                                                    *)
ASSUME KeysAssumption == IsFiniteSet(Keys) /\ Keys = 1 .. Cardinality(Keys)
ASSUME RequestsAssumption ==
    Requests \subseteq [compact : BOOLEAN, rebuild : BOOLEAN, convert : BOOLEAN, daily : BOOLEAN,
                        proceed : BOOLEAN]

VARIABLES
    request,        \* of this run
    archives,       \* event archive of each leg: "none", "old" (of earlier event
                    \* semantics), "cut" (its writing broke off), "short" (of a
                    \* part of the rows) or "whole"
    splits,         \* split CSV of each spot: "none", "short" or "whole"
    found,          \* legs the run has a path of
    left,           \* records not looked at
    ready,          \* pairs with event data
    stage,          \* "split", "futures", "records", "audit", "run" or "ended"
    runs            \* how many runs there were

files == <<archives, splits>>
data == <<request, archives, splits, found, left, ready, stage, runs>>

Stock(s) == <<"stock", s>>
Future(f) == <<"stock_future", f>>

Spots == {SpotOf[k] : k \in Keys}
Futures == {FutureOf[k] : k \in Keys}
Legs == {Stock(s) : s \in Spots} \cup {Future(f) : f \in Futures}
LegsOf(k) == {Stock(SpotOf[k]), Future(FutureOf[k])}

DataInit ==
    /\ request \in Requests
    /\ \E content \in {"none", "old"} :
          archives = [leg \in Legs |-> IF leg[1] = "stock" THEN content ELSE "none"]
    /\ splits = [s \in Spots |-> "none"]
    /\ found = {} /\ left = Keys /\ ready = {} /\ stage = "split" /\ runs = 1

\* the archives of "legs" that are written end as "content" has it
Written(legs, content) ==
    [leg \in Legs |-> IF leg \in legs /\ content[leg] # "same" THEN content[leg] ELSE archives[leg]]

-----------------------------------------------------------------------------
(* event_data_semantics_issue: only spots are asked.                       *)
Issue(s) == archives[Stock(s)] \in {"none", "old", "cut"}

(* prepare_spot_input_csvs: split files are reused as they are.            *)
ToSplit ==
    IF request.daily
    THEN {s \in Spots : request.rebuild \/ (Issue(s) /\ splits[s] = "none")} ELSE {}

SplitSpots ==
    /\ stage = "split" /\ ~ request.compact
    /\ \/ /\ splits' = [s \in Spots |-> IF s \in ToSplit THEN "whole" ELSE splits[s]]
          /\ stage' = "futures"
       \/ \E begun \in SUBSET ToSplit :              \* killed, or the search failed
             /\ splits' = [s \in Spots |-> IF s \in begun THEN "short" ELSE splits[s]]
             /\ stage' = "ended"
    /\ UNCHANGED <<request, archives, found, left, ready, runs>>

Convertible == request.rebuild \/ request.convert

(* prepare_future_events, convert_tw_stock_future_batch_to_npz: whether     *)
(* there is a file decides; one future's failure leaves the others be.      *)
PrepareFutures ==
    LET unmade == {Future(f) : f \in {g \in Futures : request.rebuild \/ archives[Future(g)] = "none"}}
        pending == IF Convertible THEN unmade ELSE {}
    IN  /\ stage = "futures"
        /\ \E content \in [pending -> {"whole", "cut", "same"}] :
              /\ archives' = Written(pending, content)
              /\ \/ /\ stage' = "records"
                    /\ found' = {Future(f) : f \in Futures} \ {leg \in unmade :
                                    leg \in pending => content[leg] # "whole"}
                 \/ pending # {} /\ stage' = "ended" /\ UNCHANGED found
        /\ UNCHANGED <<request, splits, left, ready, runs>>

\* the CSV a conversion would read
HasCsv(s) == request.daily \/ (~ request.rebuild /\ splits[s] # "none")

(* ensure_spot_events: <<what the archives become, is there a path>>.      *)
SpotOutcomes(s) ==
    LET made == IF splits[s] = "short" THEN "short" ELSE "whole"
    IN  IF ~ Issue(s) /\ ~ request.rebuild THEN {<<archives, TRUE>>}
        ELSE IF ~ Convertible \/ ~ HasCsv(s) THEN {<<archives, FALSE>>}
        ELSE {<<Written({Stock(s)}, [leg \in {Stock(s)} |-> content]), content = made>> :
                 content \in {made, "cut", "same"}}

(* build_event_data: the next record; the spots of earlier ones are cached. *)
NextRecord ==
    /\ stage = "records" /\ left # {}
    /\ LET k == Min(left)
           spot == Stock(SpotOf[k])
           outcomes == IF \E j \in Keys \ left : SpotOf[j] = SpotOf[k]
                       THEN {<<archives, spot \in found>>} ELSE SpotOutcomes(SpotOf[k])
       IN  \E outcome \in outcomes :
              LET all == IF outcome[2] THEN found \cup {spot} ELSE found
                  ok == LegsOf(k) \subseteq all
              IN  /\ archives' = outcome[1] /\ found' = all /\ left' = left \ {k}
                  /\ ready' = IF ok THEN ready \cup {k} ELSE ready
                  /\ \/ stage' = IF ~ ok /\ ~ request.proceed THEN "ended"
                                 ELSE IF left = {k} THEN "audit" ELSE "records"
                     \/ archives' # archives /\ stage' = "ended"     \* killed
    /\ UNCHANGED <<request, splits, runs>>

(* hbt_settings_frame reads the archives of the pairs that are ready; an    *)
(* unreadable one raises whatever --continue-on-error says.                 *)
AuditReady ==
    /\ stage = "audit"
    /\ stage' = IF \E k \in ready, leg \in Legs : leg \in LegsOf(k) /\ archives[leg] = "cut"
                THEN "ended" ELSE "run"
    /\ UNCHANGED <<request, files, found, left, ready, runs>>

(* build_compact_event_data: all or nothing.                               *)
BuildCompact ==
    /\ stage = "split" /\ request.compact
    /\ \/ ready' = Keys /\ stage' = "run"
       \/ stage' = (IF request.proceed THEN "run" ELSE "ended") /\ UNCHANGED ready
    /\ UNCHANGED <<request, files, found, left, runs>>

(* The runner is started again.                                            *)
Rerun ==
    /\ stage = "ended" /\ runs < MaxRuns
    /\ request' \in Requests /\ runs' = runs + 1
    /\ found' = {} /\ left' = Keys /\ ready' = {} /\ stage' = "split"
    /\ UNCHANGED files

DataNext ==
    SplitSpots \/ PrepareFutures \/ NextRecord \/ AuditReady \/ BuildCompact \/ Rerun

\* once the backtests run, nothing here is looked at any more
Forget ==
    /\ archives' = <<>> /\ splits' = <<>> /\ found' = {} /\ left' = {} /\ runs' = 0
    /\ request' = [proceed |-> request.proceed] /\ UNCHANGED <<ready, stage>>

-----------------------------------------------------------------------------
(* Whatever raised or was killed before, no backtest reads an archive of    *)
(* earlier semantics or one whose writing broke off, and in a run that      *)
(* rebuilds, or is the first, no archive of a part of the rows: a split     *)
(* that broke off is reused by later runs unless they rebuild.  Without     *)
(* --continue-on-error backtests begin only with the data of every pair.    *)
DataIsSound ==
    stage = "run" /\ runs > 0 =>
        /\ ~ request.compact =>
              \A k \in ready : \A leg \in LegsOf(k) :
                  /\ archives[leg] \in {"whole", "short"}
                  /\ request.rebuild \/ runs = 1 => archives[leg] = "whole"
                  /\ archives[leg] = "short" => leg[1] = "stock"
        /\ ~ request.proceed => ready = Keys
=============================================================================
