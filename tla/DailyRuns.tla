------------------------------ MODULE DailyRuns ------------------------------
(***************************************************************************)
(* Runs of the multi-day backtest over one output directory: the dates      *)
(* executed in order, the store of daily partitions they publish            *)
(* (scripts/daily_result_store.py), the CSV tables and the manifest that    *)
(* lets a later run reuse them (future_spot/arbitrage/                      *)
(* full_market_runner.py).  A run may be killed at any point and another    *)
(* one started, with the same arguments, with others, or with a rebuild     *)
(* asked for; a published partition may be damaged between runs.            *)
(*                                                                         *)
(* A date's result is a function of the arguments, the date and the         *)
(* positions carried in, and is represented by them.  Positions are         *)
(* represented by where they were entered: a date adds to them or, for the  *)
(* arguments and dates in Closes, ends flat.                                *)
(***************************************************************************)
EXTENDS Integers, Sequences, FiniteSets

CONSTANTS
    Versions,       \* everything the input identity fingerprints, but the range
    Kind,           \* version -> "summary", "full" (report_mode), "independent" (no carry)
    LastDate,       \* trade dates are 1..LastDate
    Closes,         \* set of <<version, date>> that end without a position
    Tables,         \* CSV tables of core results, integers in the order written
    Absent, Torn,     \* model values
    MaxRuns, MaxFaults      \* bounds: runs started, partitions damaged

Dates == 1..LastDate

(* A result, the partition that stores one, and what a manifest names.      *)
Positions == Seq(Versions \X Dates)
Results == [v : Versions, d : Dates, in : Positions, out : Positions]
Parts == [r : Results, ok : BOOLEAN]
Ids == [v : Versions, first : Dates, last : Dates]

ASSUME RunsAssumption ==
    /\ Kind \in [Versions -> {"summary", "full", "independent"}]
    /\ LastDate \in Nat \ {0} /\ Closes \subseteq Versions \X Dates
    /\ Tables \subseteq Nat /\ Tables # {}
    /\ Absent \notin Parts /\ Absent \notin Ids

VARIABLES
    opened,     \* whether the directory of the store, core/dates, exists
    parts,      \* dates/trade_date=...: the partition of each date, or Absent
    csv,        \* content of each CSV table: results, Absent, or Torn
    manifest,   \* backtest_manifest.json: version and range, or Absent
    run,        \* the process that is running, or Idle
    report,     \* history: the last run that finished, and what it reported
    runs, faults

vars == <<opened, parts, csv, manifest, run, report, runs, faults>>

Idle == [pc |-> "idle"]

(* What date d gives under version v from the positions c.                  *)
Result(v, d, c) ==
    [v |-> v, d |-> d, in |-> c,
     out |-> IF Kind[v] = "independent" \/ <<v, d>> \in Closes THEN <<>> ELSE Append(c, <<v, d>>)]

Init ==
    /\ opened = FALSE
    /\ parts = [d \in Dates |-> Absent]
    /\ csv = [t \in Tables |-> Absent]
    /\ manifest = Absent /\ run = Idle /\ report = Absent
    /\ runs = 0 /\ faults = 0

-----------------------------------------------------------------------------
(* The store. *)

Valid(d) == parts[d] # Absent /\ parts[d].ok

(* validated_prefix of a range, from no position on.                        *)
PrefixFrom(v, first, last) ==
    {d \in first..last : \A k \in first..d :
        /\ Valid(k) /\ parts[k].r.v = v
        /\ parts[k].r.in = IF k = first THEN <<>> ELSE parts[k - 1].r.out}

-----------------------------------------------------------------------------
(* A run starts: execute_hbt_runs. *)

Identity(v, first, last) == [v |-> v, first |-> first, last |-> last]
CsvsExist == \A t \in Tables : csv[t] # Absent

CacheIsValid(v, first, last, rebuild) ==
    ~rebuild /\ CsvsExist /\ manifest = Identity(v, first, last)

(* A run that resumes by date does not look at the CSVs.                    *)
ResumesByDate(v) == Kind[v] = "summary" /\ opened

(* The results are read back from the CSV tables.                           *)
FromCsvs(r) == [r EXCEPT !.pc = "csv", !.results = csv, !.cached = TRUE]

Start(v, first, last, rebuild) ==
    LET r == [pc |-> "days", v |-> v, first |-> first, last |-> last, rebuild |-> rebuild,
              day |-> first, carry |-> <<>>, results |-> <<>>, fresh |-> <<>>,
              todo |-> Tables, cached |-> FALSE, prefix |-> PrefixFrom(v, first, last)]
    IN  /\ run = Idle /\ runs < MaxRuns /\ first <= last
        /\ runs' = runs + 1
        /\ run' = IF CacheIsValid(v, first, last, rebuild) /\ ~ResumesByDate(v)
                  THEN FromCsvs(r)
                  ELSE r
        /\ UNCHANGED <<opened, parts, csv, manifest, report, faults>>

-----------------------------------------------------------------------------
(* run_backtests_with_position_carry: one date after the other. *)

Takes(r) == [run EXCEPT !.results = Append(@, r), !.carry = r.out, !.day = @ + 1, !.pc = "days"]
InDays == run.pc = "days" /\ run.day <= run.last
Carries == Kind[run.v] # "independent"

ReusableAnyCarry(d) ==                     \* mutant: the positions carried in are not compared
    ~run.rebuild /\ Valid(d) /\ parts[d].r.v = run.v
ReusableWhenFlat(d) ==                     \* mutant: compared with no position at all
    ~run.rebuild /\ Valid(d) /\ parts[d].r.v = run.v /\ parts[d].r.in = <<>>

Reusable(d) == ~run.rebuild /\ Valid(d) /\ parts[d].r.v = run.v /\ parts[d].r.in = run.carry

Reuse ==
    /\ InDays /\ Carries /\ Reusable(run.day)
    /\ run' = Takes(parts[run.day].r)
    /\ UNCHANGED <<opened, parts, csv, manifest, report, runs, faults>>

(* The date is executed; then published, unless a partition is in the way:  *)
(* one that is damaged, or a valid one when no rebuild was asked for.       *)
MayPublish(d) == parts[d] = Absent \/ (run.rebuild /\ Valid(d))

(* The new partition is written beside the old one, which is moved away.    *)
Prepare(d, r) ==
    /\ opened' = TRUE
    /\ parts' = [parts EXCEPT ![d] = Absent]
    /\ run' = [run EXCEPT !.pc = "install", !.fresh = r]

Execute ==
    LET r == Result(run.v, run.day, run.carry) IN
    /\ InDays /\ (Carries => ~Reusable(run.day))
    /\ IF ~Carries THEN run' = Takes(r) /\ UNCHANGED <<opened, parts>>
       ELSE IF MayPublish(run.day)
       THEN Prepare(run.day, r)
       ELSE run' = [run EXCEPT !.pc = "stopped"] /\ UNCHANGED <<opened, parts>>
    /\ UNCHANGED <<csv, manifest, report, runs, faults>>

Install ==
    /\ run.pc = "install"
    /\ parts' = [parts EXCEPT ![run.day] = [r |-> run.fresh, ok |-> TRUE]]
    /\ run' = Takes(run.fresh)
    /\ UNCHANGED <<opened, csv, manifest, report, runs, faults>>

-----------------------------------------------------------------------------
(* The tables are written when every date is done. *)

RunRange == run.first .. run.last
Streams == Kind[run.v] = "summary" /\ ~run.cached

(* write_tables_csv validates the dates once, and reads them back.          *)
DatesDone ==
    /\ run.pc = "days" /\ run.day > run.last
    /\ run' = IF Streams /\ \E d \in RunRange : ~Valid(d) THEN [run EXCEPT !.pc = "stopped"]
              ELSE [run EXCEPT !.pc = "csv",
                    !.results = [t \in Tables |-> IF Streams THEN [i \in 1..Len(run.results) |-> parts[run.first + i - 1].r]
                                                  ELSE run.results]]
    /\ UNCHANGED <<opened, parts, csv, manifest, report, runs, faults>>

NextTable == CHOOSE t \in run.todo : \A u \in run.todo : t <= u

(* A streamed table is replaced by a rename; the others are rewritten in    *)
(* place, also when they come from the cache.                               *)
OpenTable ==
    /\ run.pc = "csv" /\ run.todo # {}
    /\ csv' = [csv EXCEPT ![NextTable] = IF Streams THEN run.results[NextTable] ELSE Torn]
    /\ run' = IF Streams THEN [run EXCEPT !.todo = @ \ {NextTable}] ELSE [run EXCEPT !.pc = "table"]
    /\ UNCHANGED <<opened, parts, manifest, report, runs, faults>>

CloseTable ==
    /\ run.pc = "table"
    /\ csv' = [csv EXCEPT ![NextTable] = run.results[NextTable]]
    /\ run' = [run EXCEPT !.pc = "csv", !.todo = @ \ {NextTable}]
    /\ UNCHANGED <<opened, parts, manifest, report, runs, faults>>

(* main: the manifest comes last, and the run is over.                      *)
Finish ==
    /\ run.pc = "csv" /\ run.todo = {}
    /\ manifest' = IF run.cached THEN manifest ELSE Identity(run.v, run.first, run.last)
    /\ report' = [id |-> Identity(run.v, run.first, run.last), tables |-> run.results]
    /\ run' = Idle
    /\ UNCHANGED <<opened, parts, csv, runs, faults>>

-----------------------------------------------------------------------------
(* A run that raised ends; a crash ends one anywhere.                       *)
Crash ==
    /\ run # Idle /\ run' = Idle
    /\ UNCHANGED <<opened, parts, csv, manifest, report, runs, faults>>

Damage(d) ==
    /\ faults < MaxFaults /\ Valid(d)
    /\ parts' = [parts EXCEPT ![d].ok = FALSE]
    /\ faults' = faults + 1
    /\ UNCHANGED <<opened, csv, manifest, run, report, runs>>

Next ==
    \/ \E v \in Versions, first, last \in Dates, rebuild \in BOOLEAN : Start(v, first, last, rebuild)
    \/ Reuse \/ Execute \/ Install \/ DatesDone \/ OpenTable \/ CloseTable \/ Finish
    \/ Crash
    \/ \E d \in Dates : Damage(d)

Spec == Init /\ [][Next]_vars

-----------------------------------------------------------------------------
(* Properties *)

(* The dates first to last executed in order, the first from no position,   *)
(* each of the others from the positions the one before it ends with.       *)
CarryIn(s, i) == IF i = 1 THEN <<>> ELSE s[i - 1].out
InOrder(s, v, first, last) ==
    /\ DOMAIN s = 1..(last - first + 1)
    /\ \A i \in DOMAIN s : s[i] = Result(v, first + i - 1, CarryIn(s, i))

IsOwn(rep) == \A t \in Tables : InOrder(rep.tables[t], rep.id.v, rep.id.first, rep.id.last)

(* However many runs were killed, resumed, extended, rebuilt or started     *)
(* with other arguments before, a run that resumes by date reports exactly  *)
(* what it would have reported in an empty directory.                       *)
ResumedReportIsOwn ==
    report # Absent /\ Kind[report.id.v] = "summary" => IsOwn(report)

(* "Resume requires a verified contiguous manifest and carry chain": dates  *)
(* that the store's own rule trusted when the run started are not executed  *)
(* again, whatever the range and wherever an earlier run was killed, unless *)
(* they were damaged since or a rebuild was asked for.                      *)
TrustedPrefixIsReused ==
    [][run.pc = "days" /\ run.day <= run.last /\ run.day \in run.prefix /\ run'.pc \in {"install", "stopped"}
          => run.rebuild \/ ~Valid(run.day)]_run

=============================================================================
