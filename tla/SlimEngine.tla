----------------------------- MODULE SlimEngine -----------------------------
(***************************************************************************)
(* The native replay engine (hftbacktest_slim/native/src/engine.rs with     *)
(* scheduler.rs and matcher.rs): two assets, a local and an exchange ladder *)
(* each, orders in flight, and one clock that only the caller's API calls   *)
(* move.  A call that moves the clock is a loop over events; it is opened   *)
(* by an action of the caller, advanced by one action per event taken off   *)
(* the schedule, and closed by the action that returns to the caller.       *)
(*                                                                         *)
(* A row is identified by its source_seq, so the two sorted index vectors   *)
(* with their cursors become the sets of rows not yet applied: the row at   *)
(* the cursor is the least one left under the schedule's own key.           *)
(***************************************************************************)
EXTENDS DepthState

CONSTANTS
    Orders,       \* the <<asset, order_id>> pairs the strategy uses
    Mode,         \* equal_timestamp_ordering: "hbt" or "sequence"
    MaxTs,        \* i64::MAX: additions on time saturate here
    Scenarios,    \* rows and latencies an engine may be opened with
    Durations,    \* durations and timeouts the strategy asks for
    Limits        \* limit prices the strategy uses

Assets == 0 .. 1
Sides  == {"buy", "sell"}
NoId   == -1

EngineRow == [ exch : Nat, local : Nat, bid : Nat, ask : Nat,
               bidQty : Nat, askQty : Nat, tradable : BOOLEAN ]

ASSUME OrdersAssumption == Orders \subseteq Assets \X Nat
ASSUME ModeAssumption == Mode \in {"hbt", "sequence"}
ASSUME MaxTsAssumption == MaxTs \in Nat
ASSUME DurationsAssumption == Durations \subseteq Nat
ASSUME LimitsAssumption == Limits \subseteq Nat

Sat(t) == IF t > MaxTs THEN MaxTs ELSE t    \* saturating_add, on the way up

\* When row s of a market reaches the strategy (AssetState::local_ts).
FeedTs(m, s) == Sat(Sat(m.rows[s].local + m.adjustment) + m.offset)

\* AssetConfig refuses negative order latencies; the feed offset and the
\* correction may have either sign.  No timestamp is beyond the clock's range.
ASSUME ScenariosAssumption ==
    \A w \in Scenarios :
        /\ DOMAIN w = Assets
        /\ \A a \in Assets :
            /\ DOMAIN w[a].rows \subseteq Nat
            /\ w[a].entry \in Nat /\ w[a].response \in Nat
            /\ w[a].adjustment \in Int /\ w[a].offset \in Int
            /\ \A s \in DOMAIN w[a].rows :
                /\ w[a].rows[s] \in EngineRow
                /\ w[a].rows[s].exch <= MaxTs
                /\ FeedTs(w[a], s) >= 0
                /\ PriceTick(w[a].rows[s].bid) \in Ticks
                /\ PriceTick(w[a].rows[s].ask) \in Ticks

VARIABLES
    setup,         \* per asset: rows, adjustment, offset, entry, response
    now,           \* current_ts
    localTodo,     \* per asset: rows not yet applied to the local ladder
    exchTodo,      \* per asset: rows not yet applied to the exchange ladder
    localDepth,    \* per asset: the ladder the strategy sees
    exchDepth,     \* per asset: the ladder orders match against
    feedLatency,   \* per asset: the last (exchange, local) sample
    orderLatency,  \* per asset: the last (request, exchange, response) sample
    localSeq,      \* per asset: source_seq of the last local row, or 0
    orders,        \* per order: what the engine keeps of it
    pending,       \* requests and responses in flight
    serial,        \* next_serial
    call,          \* the API call in progress
    rc             \* the last return code
VARIABLE trail     \* history, per order: the rows the properties speak of

feedVars  == <<localTodo, localDepth, feedLatency, localSeq>>
exchVars  == <<exchTodo, exchDepth>>
orderVars == <<orders, orderLatency, pending, serial, trail>>
vars == <<setup, now, feedVars, exchVars, orderVars, call, rc>>

-----------------------------------------------------------------------------
\* Rows and orders.

Rows(a)    == DOMAIN setup[a].rows
Row(a, s)  == setup[a].rows[s]
LocalTs(a, s) == FeedTs(setup[a], s)

NoSample  == <<>>
Unsent == [ status |-> "none", side |-> "buy", price |-> 0, exec |-> 0,
            req |-> 0, exch |-> 0, resp |-> 0, visible |-> FALSE ]
Sent(side, price) == [ status |-> "NEW", side |-> side, price |-> price, exec |-> 0,
                       req |-> now, exch |-> 0, resp |-> 0, visible |-> FALSE ]
NoTrail == [ ahead |-> {}, anchor |-> 0, met |-> {} ]

NoCall == [ op |-> "idle", target |-> 0, order |-> <<0, NoId>> ]
Call(op, target, order) == [ op |-> op, target |-> target, order |-> order ]

-----------------------------------------------------------------------------
\* The schedule.  Every event is a record; `seq` is the source_seq a data row
\* has and a request or response inherits, `tie` the last word of its key.

Event(kind, ts, a, seq, tie, id) ==
    [ kind |-> kind, ts |-> ts, asset |-> a, seq |-> seq, tie |-> tie, id |-> id ]

LocalEvents == UNION { { Event("local", LocalTs(a, s), a, s, s, NoId) : s \in localTodo[a] } : a \in Assets }
ExchEvents  == UNION { { Event("exch", Row(a, s).exch, a, s, s, NoId) : s \in exchTodo[a] } : a \in Assets }
Events      == LocalEvents \cup ExchEvents \cup pending

Priority(kind) ==
    IF Mode = "hbt"
    THEN [ local |-> 0, response |-> 1, exch |-> 2, request |-> 3 ][kind]
    ELSE [ local |-> 0, exch |-> 1, request |-> 2, response |-> 3 ][kind]

\* Mutated forms: the words of the key out of order, and one left out.
KeyAssetFirst(e) == << e.asset, e.ts, IF Mode = "sequence" THEN e.seq ELSE 0, Priority(e.kind), e.tie >>
KeyWithoutSequence(e) == << e.ts, e.asset, 0, Priority(e.kind), e.tie >>

Key(e) == << e.ts, e.asset, IF Mode = "sequence" THEN e.seq ELSE 0, Priority(e.kind), e.tie >>

KeyLess(j, k) == \E i \in 1 .. 5 : /\ j[i] < k[i]
                                  /\ \A h \in 1 .. (i - 1) : j[h] = k[h]

\* next_event: the least key of all.  Two events never share a key, so there
\* is at most one.
NextEvents ==
    LET due == Events
    IN  { e \in due : \A f \in due : ~KeyLess(Key(f), Key(e)) }

-----------------------------------------------------------------------------
\* The matcher: all or nothing, at the crossing quote of a valid view.

Crossing(side, view) == TickSize * (IF side = "buy" THEN view.ask ELSE view.bid)

Crosses(side, price, view) ==
    /\ view.valid
    /\ Crossing(side, view) > 0
    /\ IF side = "buy" THEN price >= Crossing(side, view) ELSE price <= Crossing(side, view)

MatchImmediate(side, price, view) ==
    IF Crosses(side, price, view)
    THEN [ status |-> "FILLED",  exec |-> Crossing(side, view) ]
    ELSE [ status |-> "EXPIRED", exec |-> 0 ]

-----------------------------------------------------------------------------
\* SlimEngine::new: the clock starts at the first timestamp of any row.

Timestamps(w) ==
    (UNION { { w[a].rows[s].exch : s \in DOMAIN w[a].rows } : a \in Assets }) \cup
    (UNION { { FeedTs(w[a], s) : s \in DOMAIN w[a].rows } : a \in Assets })

Init ==
    /\ setup \in Scenarios
    /\ now = IF Timestamps(setup) = {} THEN 0 ELSE Min(Timestamps(setup))
    /\ localTodo = [a \in Assets |-> Rows(a)]
    /\ exchTodo = [a \in Assets |-> Rows(a)]
    /\ localDepth = [a \in Assets |-> EmptyLadder]
    /\ exchDepth = [a \in Assets |-> EmptyLadder]
    /\ feedLatency = [a \in Assets |-> NoSample]
    /\ orderLatency = [a \in Assets |-> NoSample]
    /\ localSeq = [a \in Assets |-> 0]
    /\ orders = [o \in Orders |-> Unsent]
    /\ pending = {}
    /\ serial = 0
    /\ call = NoCall
    /\ rc = 0
    /\ trail = [o \in Orders |-> NoTrail]

-----------------------------------------------------------------------------
\* Calls of the strategy.  `rc` is what the call returns.

Idle == call.op = "idle"

Return(code) == call' = NoCall /\ rc' = code

\* An identifier may be used once per asset.
Fresh(o) == orders[o].status = "none"

\* The request of an order sent now: it travels for the entry latency and is
\* anchored at the last row the strategy has seen of that asset.
EntryRequest(o, ts, seq, tie) == Event("request", ts, o[1], seq, tie, o[2])

Entry(o) == EntryRequest(o, Sat(now + setup[o[1]].entry), localSeq[o[1]], serial + 1)

\* submit.
Submit(o, side, price) ==
    /\ Idle
    /\ Fresh(o)
    /\ orders' = [orders EXCEPT ![o] = Sent(side, price)]
    /\ serial' = serial + 1
    /\ pending' = pending \cup {Entry(o)}
    /\ trail' = [trail EXCEPT ![o] = [ ahead |-> Rows(o[1]) \ exchTodo[o[1]],
                                       anchor |-> localSeq[o[1]], met |-> {} ]]
    /\ Return(0)
    /\ UNCHANGED <<setup, now, feedVars, exchVars, orderLatency>>

\* An identifier already used for that asset is refused.
SubmitDuplicate(o) ==
    /\ Idle
    /\ ~Fresh(o)
    /\ Return(-2)
    /\ UNCHANGED <<setup, now, feedVars, exchVars, orderVars>>

\* elapse: refused, with nothing processed, when the target is past every
\* event that is left.
Elapse(d) ==
    /\ Idle
    /\ LET target == Sat(now + d)
       IN  IF \A e \in Events : target > e.ts
           THEN Return(1)
           ELSE call' = Call("elapse", target, NoCall.order) /\ UNCHANGED rc
    /\ UNCHANGED <<setup, now, feedVars, exchVars, orderVars>>

\* wait_response: nothing to do when the response is already visible.
Wait(o, timeout) ==
    /\ Idle
    /\ IF orders[o].visible
       THEN Return(0)
       ELSE call' = Call("wait", Sat(now + timeout), o) /\ UNCHANGED rc
    /\ UNCHANGED <<setup, now, feedVars, exchVars, orderVars>>

\* advance_to_next_feed: refused when no local row is left on either asset.
NextFeed ==
    /\ Idle
    /\ IF \A a \in Assets : localTodo[a] = {}
       THEN Return(1)
       ELSE call' = Call("feed", 0, NoCall.order) /\ UNCHANGED rc
    /\ UNCHANGED <<setup, now, feedVars, exchVars, orderVars>>

-----------------------------------------------------------------------------
\* The loop of an open call: process_through takes events up to the target,
\* advance_to_next_feed takes them until a local row.

Bounded == call.op \in {"elapse", "wait", "drain"}

\* Mutated form: an event at the target itself is left for the next call.
DueBefore(e) == e.ts < call.target

Due(e) == e.ts <= call.target

Taken(e) == call.op = "feed" \/ (Bounded /\ Due(e))

\* Past the row taken.  (Mutated form: the cursor is not moved.)
AdvanceNot(todo, e) == todo

Advance(todo, e) == [todo EXCEPT ![e.asset] = @ \ {e.seq}]

Forward(e, caused) == (pending \ {e}) \cup caused

\* A row reaches the strategy's ladder.
LocalData(e) ==
    /\ e.kind = "local" /\ Taken(e)
    /\ now' = e.ts
    /\ localDepth' = [localDepth EXCEPT ![e.asset] = ApplyRow(@, Row(e.asset, e.seq))]
    /\ feedLatency' = [feedLatency EXCEPT ![e.asset] = <<Row(e.asset, e.seq).exch, e.ts>>]
    /\ localSeq' = [localSeq EXCEPT ![e.asset] = e.seq]
    /\ localTodo' = Advance(localTodo, e)
    /\ IF call.op = "feed" THEN Return(0) ELSE UNCHANGED <<call, rc>>
    /\ UNCHANGED <<setup, exchVars, orderVars>>

\* A row reaches the exchange ladder.
ExchData(e) ==
    /\ e.kind = "exch" /\ Taken(e)
    /\ now' = e.ts
    /\ exchDepth' = [exchDepth EXCEPT ![e.asset] = ApplyRow(@, Row(e.asset, e.seq))]
    /\ exchTodo' = Advance(exchTodo, e)
    /\ UNCHANGED <<setup, feedVars, orderVars, call, rc>>

\* The response to a request taken now.  (Mutated form: without latency.)
ReplyAtOnce(e) == Event("response", e.ts, e.asset, e.seq, serial + 1, e.id)

Reply(e) == Event("response", Sat(e.ts + setup[e.asset].response), e.asset, e.seq, serial + 1, e.id)

\* The book a request meets.  (Mutated form: the one the strategy sees.)
LocalBook(a) == View(localDepth[a])

ExchBook(a) == View(exchDepth[a])

\* A request reaches the exchange: it is matched at once against the exchange
\* view and its response starts back.
Request(e) ==
    LET o == <<e.asset, e.id>>
        decision == MatchImmediate(orders[o].side, orders[o].price, ExchBook(e.asset))
    IN  /\ e.kind = "request" /\ Taken(e)
        /\ now' = e.ts
        /\ orders' = [orders EXCEPT ![o].exch = e.ts, ![o].status = decision.status,
                                    ![o].exec = decision.exec]
        /\ serial' = serial + 1
        /\ pending' = Forward(e, {Reply(e)})
        /\ trail' = [trail EXCEPT ![o].met = Rows(e.asset) \ exchTodo[e.asset]]
        /\ UNCHANGED <<setup, feedVars, exchVars, orderLatency, call, rc>>

\* A wait has its response.  In hbt mode it first drains every other event of
\* the same timestamp.
Finish(o, ts) == IF Mode = "hbt" THEN call' = Call("drain", ts, o) /\ UNCHANGED rc
                                 ELSE Return(0)

\* A response reaches the strategy, and ends a wait for it.
Response(e) ==
    LET o == <<e.asset, e.id>>
    IN  /\ e.kind = "response" /\ Taken(e)
        /\ now' = e.ts
        /\ orders' = [orders EXCEPT ![o].resp = e.ts, ![o].visible = TRUE]
        /\ orderLatency' = [orderLatency EXCEPT ![e.asset] =
                                <<orders[o].req, orders[o].exch, e.ts>>]
        /\ pending' = Forward(e, {})
        /\ IF call.op = "wait" /\ call.order = o THEN Finish(o, e.ts) ELSE UNCHANGED <<call, rc>>
        /\ UNCHANGED <<setup, feedVars, exchVars, serial, trail>>

\* Nothing is left up to the target: the clock moves there and the call ends.
\* For a wait that is a timeout.
ReachTarget ==
    /\ Bounded
    /\ \A e \in Events : ~Due(e)
    /\ now' = call.target
    /\ Return(IF call.op = "wait" THEN 1 ELSE 0)
    /\ UNCHANGED <<setup, feedVars, exchVars, orderVars>>

-----------------------------------------------------------------------------
Strategy ==
    \/ \E o \in Orders, side \in Sides, price \in Limits : Submit(o, side, price)
    \/ \E o \in Orders : SubmitDuplicate(o)
    \/ \E d \in Durations : Elapse(d)
    \/ \E o \in Orders, d \in Durations : Wait(o, d)
    \/ NextFeed

Step ==
    \/ \E e \in NextEvents : LocalData(e) \/ ExchData(e) \/ Request(e) \/ Response(e)
    \/ ReachTarget

Next == Strategy \/ Step

\* A call is a plain loop on the caller's own thread: once opened it runs.
Fairness == WF_vars(Step)

Spec == Init /\ [][Next]_vars

FairSpec == Spec /\ Fairness
-----------------------------------------------------------------------------
\* Types.

Statuses == {"none", "NEW", "EXPIRED", "FILLED"}

OrderType == [ status : Statuses, side : Sides, price : Nat, exec : Nat,
               req : 0 .. MaxTs, exch : 0 .. MaxTs, resp : 0 .. MaxTs, visible : BOOLEAN ]

PendingType == [ kind : {"request", "response"}, ts : 0 .. MaxTs, asset : Assets,
                 seq : Nat, tie : Nat, id : Nat ]

CallType == [ op : {"idle", "elapse", "wait", "drain", "feed"}, target : 0 .. MaxTs,
              order : Orders \cup {NoCall.order} ]

TrailType == [ ahead : SUBSET Nat, anchor : Nat, met : SUBSET Nat ]

TypeOK ==
    /\ now \in 0 .. MaxTs
    /\ localTodo \in [Assets -> SUBSET Nat] /\ \A a \in Assets : localTodo[a] \subseteq Rows(a)
    /\ exchTodo \in [Assets -> SUBSET Nat] /\ \A a \in Assets : exchTodo[a] \subseteq Rows(a)
    /\ localDepth \in [Assets -> Ladders] /\ exchDepth \in [Assets -> Ladders]
    /\ feedLatency \in [Assets -> {NoSample} \cup (Nat \X Nat)]
    /\ orderLatency \in [Assets -> {NoSample} \cup (Nat \X Nat \X Nat)]
    /\ localSeq \in [Assets -> Nat]
    /\ orders \in [Orders -> OrderType]
    /\ pending \in SUBSET PendingType
    /\ serial \in Nat
    /\ call \in CallType
    /\ rc \in {-2, 0, 1}
    /\ trail \in [Orders -> TrailType]

-----------------------------------------------------------------------------
\* Safety.

Decided(o)  == orders[o].status \in {"EXPIRED", "FILLED"}
InFlight(o) == { e \in pending : <<e.asset, e.id>> = o }
Arrival(o)  == Sat(orders[o].req + setup[o[1]].entry)

\* The clock never overtakes an event that is still on the schedule: no row,
\* request or response is ever applied late, however the strategy mixes
\* elapse, wait and next-feed calls and however a call ends.
NothingOverdue == \A e \in Events : now <= e.ts

\* Every order is in exactly one stage, and the schedule holds exactly the one
\* event that stage waits for, at the configured latency after the one before:
\* no request is matched twice, and no response is lost or delivered twice.
InStage(o) ==
    \/ /\ orders[o].status = "none" \/ (Decided(o) /\ orders[o].visible)
       /\ InFlight(o) = {}
    \/ /\ orders[o].status = "NEW" /\ ~orders[o].visible
       /\ \E e \in pending : /\ InFlight(o) = {e}
                             /\ e.kind = "request" /\ e.ts = Arrival(o)
    \/ /\ Decided(o) /\ ~orders[o].visible
       /\ \E e \in pending : /\ InFlight(o) = {e}
                             /\ e.kind = "response"
                             /\ e.ts = Sat(orders[o].exch + setup[o[1]].response)

OneEventPerOpenOrder == \A o \in Orders : InStage(o)

\* The times reported with a visible order, and the latency sample taken from
\* it, are the configured latencies after its submission, to the nanosecond,
\* whatever else happened on the way.
SampleExact(a) ==
    orderLatency[a] # NoSample =>
        \E o \in Orders : /\ o[1] = a /\ orders[o].visible
                         /\ orderLatency[a] = <<orders[o].req, orders[o].exch, orders[o].resp>>

LatenciesExact ==
    /\ \A o \in Orders : Decided(o) => orders[o].exch = Arrival(o)
    /\ \A o \in Orders : orders[o].visible =>
            orders[o].resp = Sat(orders[o].exch + setup[o[1]].response)
    /\ \A a \in Assets : SampleExact(a)

\* The exchange rows of its asset an order has to meet.  In hbt mode all that
\* are stamped up to its arrival.  In sequence mode those stamped before its
\* arrival, those at its arrival up to the row it is anchored at, and those
\* that had already been applied when it was submitted.
RowsDue(o) ==
    { s \in Rows(o[1]) :
        \/ Row(o[1], s).exch < orders[o].exch
        \/ (Row(o[1], s).exch = orders[o].exch /\ (Mode = "hbt" \/ s <= trail[o].anchor))
        \/ (Mode = "sequence" /\ s \in trail[o].ahead) }

\* An order is matched against the exchange book of the moment it arrives: no
\* row stamped later has leaked in, none stamped earlier is missing.
MatchedOnArrivalBook == \A o \in Orders : Decided(o) => trail[o].met = RowsDue(o)

-----------------------------------------------------------------------------
\* What a step may never do.

\* Caller-visible time is monotone through every kind of call and return code.
ClockNeverGoesBack == [][now <= now']_vars

\* A decision, once taken at the exchange, is final: neither a late event nor
\* the reuse of an identifier changes it, and a visible answer stays visible.
DecisionIsFinal ==
    [][\A o \in Orders :
        /\ Decided(o) => /\ orders'[o].status = orders[o].status
                         /\ orders'[o].exec = orders[o].exec
                         /\ orders'[o].exch = orders[o].exch
        /\ orders[o].visible => orders'[o] = orders[o] ]_vars

Returns == call.op # "idle" /\ call'.op = "idle"

\* A wait succeeds exactly when the response is due by its deadline, the very
\* nanosecond of the deadline included; on success the clock stands at the
\* response, on a timeout at the deadline.
AnswerDue(o) == Sat(Arrival(o) + setup[o[1]].response)

WaitTellsTheTruth ==
    [][Returns /\ call.op \in {"wait", "drain"} =>
        /\ rc' = 0 => orders'[call.order].visible /\ now' = AnswerDue(call.order)
        /\ rc' = 1 => /\ now' = call.target
                      /\ orders[call.order].status # "none" => call.target < AnswerDue(call.order)]_vars

-----------------------------------------------------------------------------
\* Liveness: every call comes back.
CallsReturn == call.op # "idle" ~> call.op = "idle"
=============================================================================
