---------------------------- MODULE DateBacktests ----------------------------
(***************************************************************************)
(* The backtests of one date (future_spot/arbitrage/full_market_runner.py,  *)
(* run_backtests): when its event data are there (EventData), pairs are     *)
(* dealt to worker processes, the pairs of one spot always to the same one. *)
(* There, if they have a minimum entry interval, their sessions are driven  *)
(* together from a heap of their next events, so that the interval holds    *)
(* between entries of any two of them; otherwise they are replayed one      *)
(* after the other.  Every session owns a native engine (EngineHandle) that *)
(* has to be given back however it ends.                                    *)
(*                                                                         *)
(* Workers share nothing: the model runs their shards one after another.    *)
(* Sessions are those of PairSession, taken through its operators Advanced  *)
(* and Resolved.                                                            *)
(***************************************************************************)
EXTENDS EventData, EngineHandle, Sums

CONSTANTS
    EventRows,      \* event rows of both legs of each run key
    Options,        \* values of [cooldown, workers]: is there a minimum entry
                    \* interval, --workers
    Libraries,      \* values of <<environment, candidates>>, see ResolveLibrary
    Sides, MaxPairs, Interval, MaxSteps, Times    \* as in PairSession

ASSUME RowsAssumption == EventRows \in [Keys -> Nat]
ASSUME OptionsAssumption == Options \subseteq [cooldown : BOOLEAN, workers : Int]
ASSUME ClockAssumption == Times \subseteq Nat /\ Interval \in Nat

VARIABLES
    options, library,    \* chosen when the backtests begin
    shards,     \* run keys of each worker, in groups that share a spot
    place,      \* <<shard, group>> being run
    todo,       \* pairs of the group not opened, or not run, yet
    sessions,   \* session of each run key of the group, once opened
    heap,       \* pending: <<timestamp, run key>> of the next events
    lastEntry,  \* last_entry_ns
    current,    \* run key whose event was just resolved, or None
    opened,     \* sessions the group would abort
    engines,    \* the native engine of each run key
    results,    \* the shard's: <<run key, outcome>>
    told,       \* completed and failures of the date: <<run key, outcome>>
    entries,    \* history: entries filled in the group, in order
    status      \* "waiting" for the event data, "running", "done" or "raised"

chosen == <<data, options, library, shards>>
replay == <<sessions, heap, lastEntry, current, entries>>
vars == <<chosen, place, todo, replay, opened, engines, results, told, status>>

S == INSTANCE PairSession WITH session <- sessions

-----------------------------------------------------------------------------
(* How the pairs of a date are dealt to workers.                            *)

Weight(keys) == SumTo([k \in Keys |-> IF k \in keys THEN EventRows[k] ELSE 0], Cardinality(Keys))
KeysOf(shard) == UNION {shard[m] : m \in DOMAIN shard}

GroupsOf(keys) == {{k \in keys : SpotOf[k] = s} : s \in {SpotOf[k] : k \in keys}}

(* Heaviest group first; then the one of the smallest run key.              *)
Heavier(g, h) ==
    \/ Weight(g) > Weight(h)
    \/ Weight(g) = Weight(h) /\ Min(g) < Min(h)

Heaviest(groups) == CHOOSE g \in groups : \A h \in groups : g = h \/ Heavier(g, h)

(* The least loaded of the shards, the first one of several.                *)
Lightest(dealt) ==
    LET load(i) == Weight(KeysOf(dealt[i])) IN
    CHOOSE i \in DOMAIN dealt : \A j \in DOMAIN dealt : load(i) < load(j) \/ (load(i) = load(j) /\ i <= j)

Assign(dealt, group) == LET i == Lightest(dealt) IN [dealt EXCEPT ![i] = Append(@, group)]

ShardCount(keys, workers) == Max({1, Min({workers, Cardinality(keys)})})

DealHeaviest(x) ==
    LET g == Heaviest(x.left) IN [left |-> x.left \ {g}, shards |-> Assign(x.shards, g)]

(* The loop over the groups: what each shard has after n of them, and the    *)
(* groups left.                                                              *)
Dealt(keys, workers) ==
    LET deal[n \in 0 .. Cardinality(GroupsOf(keys))] ==
            IF n = 0
            THEN [left |-> GroupsOf(keys), shards |-> [i \in 1 .. ShardCount(keys, workers) |-> <<>>]]
            ELSE DealHeaviest(deal[n - 1])
    IN  deal[Cardinality(GroupsOf(keys))].shards

NonEmpty(dealt) ==
    LET kept[n \in 0 .. Len(dealt)] ==
            IF n = 0 THEN <<>>
            ELSE IF dealt[n] = <<>> THEN kept[n - 1] ELSE Append(kept[n - 1], dealt[n])
    IN  kept[Len(dealt)]

(* balanced_backtest_shards: a shard is a sequence of groups of run keys.   *)
Shards(keys, workers) == NonEmpty(Dealt(keys, workers))

-----------------------------------------------------------------------------
None == 0
Before(x, y) == x[1] < y[1] \/ (x[1] = y[1] /\ x[2] < y[2])

Outcomes(keys, outcome) == {<<k, outcome>> : k \in keys}
Group == shards[place[1]][place[2]]
Bound == Binds(library[1], library[2])

(* _uses_shared_spot_cooldown                                               *)
Shared == options.cooldown /\ Cardinality(Group) > 1

Fresh ==
    /\ sessions = <<>> /\ heap = {} /\ lastEntry = S!Never /\ current = None
    /\ entries = <<>> /\ opened = {}

Init ==
    /\ DataInit
    /\ options = <<>> /\ library = <<>> /\ shards = <<>>
    /\ place = <<1, 0>> /\ todo = {} /\ Fresh
    /\ engines = [k \in Keys |-> NoEngine]
    /\ results = {} /\ told = {} /\ status = "waiting"

Prepare ==
    /\ status = "waiting" /\ DataNext
    /\ UNCHANGED <<options, library, shards, place, todo, replay, opened, engines, results, told, status>>

Begin ==
    /\ status = "waiting" /\ stage = "run" /\ Forget
    /\ options' \in Options /\ library' \in Libraries
    /\ shards' = Shards(ready, options'.workers) /\ status' = "running"
    /\ UNCHANGED <<place, todo, replay, opened, engines, results, told>>

Running == status = "running" /\ place[2] > 0
Idle == status = "running" /\ todo = {} /\ opened = {} /\ heap = {} /\ current = None

-----------------------------------------------------------------------------
(* The group is left, by its end or by an exception: what it held is        *)
(* dropped, which closes any engine still open.                             *)

Drop(es) == [k \in Keys |-> Del(es[k])]
Aborted(es) == [k \in Keys |-> IF k \in opened THEN Close(es[k]) ELSE es[k]]

(* An exception with the engines es: the sessions opened are aborted, and   *)
(* every pair of the group is reported as failed, or the run ends; there    *)
(* the exception keeps what the group held.                                 *)
Raise(es) ==
    /\ opened' = {} /\ todo' = {} /\ heap' = {} /\ current' = None
    /\ engines' = IF request.proceed THEN Drop(Aborted(es)) ELSE Aborted(es)
    /\ status' = IF request.proceed THEN "running" ELSE "raised"
    /\ results' = results \cup Outcomes(Group, "error")

(* _run_backtest_shard: the next group; run_backtests: the next shard's     *)
(* results are in, and at the last one the date is done.                    *)
NextGroup ==
    /\ Idle
    /\ IF shards = <<>> THEN status' = "done" /\ UNCHANGED <<place, todo, results, told>>
       ELSE IF place[2] < Len(shards[place[1]])
       THEN /\ place' = [place EXCEPT ![2] = @ + 1]
            /\ todo' = shards[place[1]][place[2] + 1]
            /\ UNCHANGED <<results, told, status>>
       ELSE /\ told' = told \cup results /\ results' = {}
            /\ place' = IF place[1] < Len(shards) THEN <<place[1] + 1, 0>> ELSE place
            /\ status' = IF place[1] < Len(shards) THEN "running" ELSE "done"
            /\ UNCHANGED todo
    /\ engines' = Drop(engines)
    /\ sessions' = <<>> /\ lastEntry' = S!Never /\ entries' = <<>>
    /\ UNCHANGED <<chosen, heap, current, opened>>

(* A worker process dies, and breaks the pool: its results and those not in *)
(* yet are lost.  The system takes its engines with it.                     *)
WorkerDies ==
    /\ Running /\ Len(shards) > 1
    /\ told' = told \cup Outcomes(UNION {KeysOf(shards[i]) : i \in place[1]..Len(shards)}, "error")
    /\ status' = IF request.proceed THEN "done" ELSE "raised"
    /\ engines' = [k \in Keys |-> NoEngine]
    /\ opened' = {} /\ todo' = {} /\ heap' = {} /\ current' = None /\ results' = {}
    /\ UNCHANGED <<chosen, place, sessions, lastEntry, entries>>

-----------------------------------------------------------------------------
(* _run_shared_spot_cooldown_group *)

(* The session of k goes to its next event; it is pushed when there is one. *)
Pushes(k, s) ==
    /\ sessions' = [j \in DOMAIN sessions \cup {k} |-> IF j = k THEN s ELSE sessions[j]]
    /\ heap' = IF s.phase = "over" THEN heap ELSE heap \cup {<<s.event.ts, k>>}

(* advance_coordinated_event_session asks the engine for its next feed.     *)
Advances(k, e, s) ==
    \E t \in S!Advanced(s) : Answer(e, IF t.phase = "over" THEN 1 ELSE 0) # "raise" /\ Pushes(k, t)

(* open_coordinated_event_session: an engine whose first advance raises is  *)
(* not in opened yet.                                                       *)
Open ==
    /\ Running /\ todo # {} /\ Shared
    /\ \E checked, accepted \in BOOLEAN :
        LET k == Min(todo)
            es == [engines EXCEPT ![k] = Construct(@, Bound, checked, accepted)]
        IN  \/ /\ Advances(k, es[k], S!Fresh)
               /\ engines' = es /\ opened' = opened \cup {k} /\ todo' = todo \ {k}
               /\ UNCHANGED <<current, results, status>>
            \/ Raise(es) /\ UNCHANGED sessions
    /\ UNCHANGED <<chosen, place, lastEntry, entries, told>>

CoolingOwn(k, e) ==                        \* mutant: the interval of the pair alone
    LET own == sessions[k].entered IN e.signal \in Sides /\ e.go /\ own # S!Never /\ e.ts - own < Interval

(* The shared interval has not elapsed for entry event e.                   *)
Cooling(k, e) ==
    e.signal \in Sides /\ e.go /\ lastEntry # S!Never /\ e.ts - lastEntry \in 0 .. Interval - 1

Latest(t) == IF lastEntry > t THEN lastEntry ELSE t

Earliest(x) == \A y \in heap : x = y \/ Before(x, y)

(* Pop the earliest event and resolve it.                                   *)
ResolveNext ==
    /\ Running /\ todo = {} /\ current = None
    /\ \E x \in heap :
        LET k == x[2]  e == sessions[k].event IN
        /\ Earliest(x)
        /\ \/ \E s \in S!Resolved(sessions[k], Cooling(k, e)) :
                /\ heap' = heap \ {x}
                /\ sessions' = [sessions EXCEPT ![k] = s]
                /\ lastEntry' = IF s.filled THEN Latest(s.entered) ELSE lastEntry
                /\ entries' = IF s.filled THEN Append(entries, s.entered) ELSE entries
                /\ current' = k
                /\ UNCHANGED <<todo, opened, engines, results, status>>
           \/ /\ e.go /\ ~Cooling(k, e)
              /\ Raise(engines) /\ UNCHANGED <<sessions, lastEntry, entries>>
    /\ UNCHANGED <<chosen, place, told>>

AdvanceIt ==
    /\ Running /\ current # None
    /\ \/ /\ Advances(current, engines[current], sessions[current])
          /\ current' = None /\ UNCHANGED <<todo, opened, engines, results, status>>
       \/ Raise(engines) /\ UNCHANGED sessions
    /\ UNCHANGED <<chosen, place, lastEntry, entries, told>>

(* Every session is over: they are closed in order.  The engine is closed   *)
(* even if the last row cannot be recorded; results count when all are in.  *)
CloseNext ==
    /\ Running /\ todo = {} /\ heap = {} /\ current = None /\ opened # {}
    /\ LET k == Min(opened)
           es == [engines EXCEPT ![k] = Close(@)]
       IN  \/ /\ engines' = es /\ opened' = opened \ {k}
              /\ results' = IF opened = {k} THEN results \cup Outcomes(Group, "result") ELSE results
              /\ UNCHANGED <<todo, heap, current, status>>
           \/ Raise(es)
    /\ UNCHANGED <<chosen, place, sessions, lastEntry, entries, told>>

-----------------------------------------------------------------------------
(* Without a shared interval: _run_single_pair_backtest, pair after pair.   *)
(* HbtPairBacktester.run closes its engine however the replay ends.         *)
RunSingle ==
    /\ Running /\ todo # {} /\ ~Shared
    /\ \E checked, accepted \in BOOLEAN :
        LET k == Min(todo)
            made == Construct(engines[k], Bound, checked, accepted)
            es == [engines EXCEPT ![k] = Close(made)]
        IN  \/ /\ Live(made) /\ engines' = es /\ todo' = todo \ {k}
               /\ results' = results \cup Outcomes({k}, "result")
               /\ UNCHANGED <<heap, current, opened, status>>
            \/ Raise(es)
    /\ UNCHANGED <<chosen, place, sessions, lastEntry, entries, told>>

Done == (status \in {"done", "raised"} \/ (stage = "ended" /\ runs = MaxRuns)) /\ UNCHANGED vars

Next ==
    \/ Prepare \/ Begin \/ NextGroup \/ WorkerDies \/ Open \/ ResolveNext \/ AdvanceIt \/ CloseNext \/ RunSingle
    \/ Done

Spec == Init /\ [][Next]_vars

-----------------------------------------------------------------------------
(* What run_backtests reports of a pair: missing data and failures before a *)
(* result.                                                                  *)
Reported(k) ==
    IF k \notin ready \/ <<k, "error">> \in told THEN "error"
    ELSE IF <<k, "result">> \in told THEN "result" ELSE "nothing"

-----------------------------------------------------------------------------
(* Properties *)

(* Entries of any two pairs of a spot are the interval apart: each          *)
(* session's clock runs on its own, through waits of any length, and the    *)
(* heap must still present their events in time order for one last entry to *)
(* speak for them all.  Pairs dealt to two workers could not know of each   *)
(* other's entries at all.                                                  *)
GroupEntriesApart ==
    /\ \A i, j \in DOMAIN shards, k, l \in ready :
        k \in KeysOf(shards[i]) /\ l \in KeysOf(shards[j]) /\ SpotOf[k] = SpotOf[l] => i = j
    /\ \A i, j \in DOMAIN entries : i < j => entries[j] - entries[i] >= Interval

(* No engine is given back twice or used after it was, whichever of the     *)
(* exceptions that may leave a group meets which of its sessions half open, *)
(* open or half closed; and none is left behind by a run that goes on.      *)
EnginesAreFreed ==
    /\ \A k \in Keys : engines[k].freed <= engines[k].allocated /\ (engines[k].handle => Live(engines[k]))
    /\ \A x \in heap : engines[x[2]].handle
    /\ status = "done" => \A k \in Keys : ~Live(engines[k])

(* No pair is lost on the way back from a worker: at the end each one has   *)
(* a result or an error, also when its group failed at another pair, when   *)
(* the worker died, or when there was no data for it; and what is replayed  *)
(* is the date's data (EventData).                                          *)
NothingIsLost ==
    /\ DataIsSound /\ EnginesAreFreed
    /\ status = "done" => \A k \in Keys : Reported(k) # "nothing"

=============================================================================
