--------------------------- MODULE LivePairOrders ---------------------------
(***************************************************************************)
(* The live order router of one pair (FubonMarketDataProvider in            *)
(* future_spot/arbitrage/providers.py).  A pair order is two orders: the    *)
(* leg whose quote triggered it goes first, the other is sent by the        *)
(* callback of the first one's fill.  Three threads run: the strategy loop  *)
(* ("main"), which starts pair orders and checks timeouts, and the broker's *)
(* two callback threads, one for each market, named after their leg.  They  *)
(* share the position, the pending order and the entry blocks; every action *)
(* is one critical section of the lock, or one call of the broker's SDK.    *)
(*                                                                         *)
(* Units are counted in parts of a pair (Lot parts make one), as a fill is  *)
(* reported in parts.  Time is abstracted: a pending order may be found     *)
(* overdue, and a cooldown over, at any moment.  The broker is external: it *)
(* accepts or refuses an order and then fills it whole, part by part, or    *)
(* kills it; an immediate-or-cancel flatten order may be filled in part.    *)
(***************************************************************************)
EXTENDS Integers, Sequences, FiniteSets

CONSTANTS
    Lot,            \* parts of a pair in which fills may be reported
    MaxPairs,       \* PairConfig.max_pairs
    MaxPending,     \* bound: pair orders started in a behaviour
    Directions,     \* 1 long spot short future, -1 the reverse (allow_short_spot)
    Flattens,       \* BOOLEAN: second_leg_failure_action = "flatten_first_leg"
    FlattenTif      \* "FOK" or "IOC": flatten_first_leg_time_in_force

ASSUME LiveAssumption ==
    /\ Lot \in Nat \ {0} /\ MaxPairs \in Nat \ {0} /\ MaxPending \in Nat
    /\ Directions \subseteq {1, -1}
    /\ Flattens \in BOOLEAN /\ FlattenTif \in {"FOK", "IOC"}

Legs == {"stock", "future"}
Threads == Legs \cup {"main"}
Other(leg) == IF leg = "stock" THEN "future" ELSE "stock"
Abs(n) == IF n < 0 THEN -n ELSE n
Least(a, b) == IF a < b THEN a ELSE b

VARIABLES
    units,      \* PairPosition.stock_units, future_units, in parts
    pending,    \* the entry of _pending_pair_orders, or NoPending
    blocks,     \* subset of {"disabled", "locked", "cooling"}
    orders,     \* the broker: every order accepted, in order
    thread,     \* what each thread is about to do, and with which pair order
    started,    \* number of pair orders made so far, their identity
    clean       \* history: every pair order so far was started clean (see Settled)

vars == <<units, pending, blocks, orders, thread, started, clean>>

(* A pair order: signal, trade direction of its legs (+1 adds to units),    *)
(* size, targets, first leg; and the flags the threads change.              *)
NoPending == [id |-> 0, sent |-> {}, handled |-> FALSE]
Pending(id, signal, sign, qty, first) ==
    [id |-> id, signal |-> signal, sign |-> sign, qty |-> qty, first |-> first,
     sent |-> {}, handled |-> FALSE, target |-> [l \in Legs |-> units[l] + sign * qty]]

Idle == [pc |-> "idle"]
Job(pc, p) == [pc |-> pc, p |-> p]

-----------------------------------------------------------------------------
(* The position the legs amount to. *)
Direction ==
    IF units["stock"] > 0 /\ units["future"] > 0 THEN 1
    ELSE IF units["stock"] < 0 /\ units["future"] < 0 THEN -1 ELSE 0
Quantity == IF Direction = 0 THEN 0 ELSE Least(Abs(units["stock"]), Abs(units["future"]))
Exposed == \E l \in Legs : units[l] # 0

AtTarget(leg) == units[leg] = pending.target[leg]

Init ==
    /\ units = [l \in Legs |-> 0]
    /\ pending = NoPending
    /\ blocks = {}
    /\ orders = <<>>
    /\ thread = [t \in Threads |-> Idle]
    /\ started = 0
    /\ clean = TRUE

(* Thread t, done with what it had to do, goes on with job j.               *)
Goes(t, j) == thread' = [thread EXCEPT ![t] = j]

-----------------------------------------------------------------------------
(* The strategy loop.                                                       *)

(* A signal the engine may give at this position, past the risk check.      *)
MayEnter(d) ==
    /\ d \in Directions
    /\ Quantity # 0 => Direction = d
    /\ ~(Exposed /\ Quantity = 0)
    /\ Quantity < MaxPairs * Lot

Evaluate ==
    /\ thread["main"] = Idle
    /\ started < MaxPending
    /\ \/ \E d \in Directions : MayEnter(d) /\ Goes("main", [pc |-> "route", signal |-> "ENTER", d |-> d, seen |-> units])
       \/ Quantity # 0 /\ Goes("main", [pc |-> "route", signal |-> "EXIT", d |-> Direction, seen |-> units])
    /\ UNCHANGED <<units, pending, blocks, orders, started, clean>>

(* _entry_block_reason. *)
Blocked == blocks # {}

(* Sizes an exit may have: the open quantity, or what the top of the book   *)
(* can take in whole pairs.                                                 *)
ExitSizes == {q \in 1..Quantity : q = Quantity \/ q % Lot = 0}

(* place_pair_orders up to the lock: the new pair order is computed from    *)
(* the position without it.                                                 *)
Route ==
    LET m == thread["main"] IN
    /\ m.pc = "route"
    /\ IF m.signal = "ENTER"
       THEN IF Blocked THEN Goes("main", Idle)
            ELSE \E f \in Legs : Goes("main", [pc |-> "store", p |-> Pending(started + 1, "ENTER", m.d, Lot, f), seen |-> m.seen])
       ELSE IF Quantity = 0 THEN Goes("main", Idle)
            ELSE \E q \in ExitSizes, f \in Legs :
                     Goes("main", [pc |-> "store", p |-> Pending(started + 1, "EXIT", -Direction, q, f), seen |-> m.seen])
    /\ UNCHANGED <<units, pending, blocks, orders, started, clean>>

(* A pair order starts clean when nothing of an earlier one is under way and *)
(* the position is the one the risk check saw and the targets came from.     *)
Fresh(m) == m.seen = units /\ \A l \in Legs : m.p.target[l] = units[l] + m.p.sign * m.p.qty
Settled == (\A l \in Legs : thread[l] = Idle) /\ \A i \in DOMAIN orders : ~orders[i].live

Store ==
    LET m == thread["main"] IN
    /\ m.pc = "store"
    /\ IF pending # NoPending
       THEN Goes("main", Idle) /\ UNCHANGED <<pending, started>>
       ELSE /\ pending' = m.p /\ started' = started + 1
            /\ Goes("main", Job("place", m.p))
    /\ clean' = (clean /\ (pending = NoPending => Fresh(m) /\ Settled))
    /\ UNCHANGED <<units, blocks, orders>>

-----------------------------------------------------------------------------
(* Calls of the broker.  An accepted order is live at once: its fill may be *)
(* called back before the call that placed it returns.                      *)

(* _place_stock_order_for_pending, _place_future_order_for_pending.         *)
LegOrder(p, role, leg) ==
    [pid |-> p.id, role |-> role, leg |-> leg, sign |-> p.sign, qty |-> p.qty, tif |-> "FOK"]

(* _place_stock_flatten_order, _place_future_flatten_order: the first leg   *)
(* the other way, for what the pair order asked.                            *)
FlattenOrder(p) ==
    [pid |-> p.id, role |-> "flatten", leg |-> p.first, sign |-> -p.sign, qty |-> p.qty, tif |-> FlattenTif]

Accept(o) ==
    orders' = Append(orders, [pid |-> o.pid, role |-> o.role, leg |-> o.leg, sign |-> o.sign,
                              qty |-> o.qty, tif |-> o.tif, left |-> o.qty, live |-> TRUE])

(* _handle_pair_order_submit_failure: no leg of the pair order was accepted.*)
Refused == pending' = NoPending

PlaceFirst ==
    LET m == thread["main"] IN
    /\ m.pc = "place"
    /\ \/ /\ Accept(LegOrder(m.p, "first", m.p.first))
          /\ Goes("main", Job("placed", m.p))
          /\ UNCHANGED pending
       \/ /\ Refused
          /\ Goes("main", Idle) /\ UNCHANGED orders
    /\ UNCHANGED <<units, blocks, started, clean>>

(* Flags of a pair order that is no longer the pending one change nothing.  *)
Flag(p, s) == pending' = IF pending.id = p.id THEN [pending EXCEPT !.sent = s] ELSE pending

(* The call has returned; only now is the first leg marked as sent.         *)
MarkSent ==
    LET m == thread["main"] IN
    /\ m.pc = "placed"
    /\ Flag(m.p, pending.sent \cup {m.p.first})
    /\ Goes("main", Idle)
    /\ UNCHANGED <<units, blocks, orders, started, clean>>

-----------------------------------------------------------------------------
(* Fill callbacks.                                                          *)

ReleasedOnceHandled(u) ==                 \* mutant: any fill after the failure releases
    \/ pending.handled
    \/ \A l \in Legs : u[l] = pending.target[l]

(* _release_pending_order_if_target_met, after the units became u.          *)
Released(u) ==
    \/ pending.handled /\ \A l \in Legs : u[l] = 0
    \/ \A l \in Legs : u[l] = pending.target[l]

Fill(i, k) ==
    LET o == orders[i]
        u == [units EXCEPT ![o.leg] = @ + o.sign * k]
    IN  /\ thread[o.leg] = Idle
        /\ o.live /\ k \in 1..o.left
        /\ orders' = [orders EXCEPT ![i].left = o.left - k, ![i].live = k < o.left]
        /\ units' = u
        /\ pending' = IF pending # NoPending /\ Released(u) THEN NoPending ELSE pending
        /\ Goes(o.leg, [pc |-> "filled"])
        /\ UNCHANGED <<blocks, started, clean>>

ReadyOnAnyFill(leg) ==                    \* mutant: a part of the first leg is enough
    pending # NoPending /\ Other(leg) \notin pending.sent

(* _place_deferred_*_order_if_ready: the leg just filled has reached its    *)
(* target and the other was not sent yet.                                   *)
Ready(leg) == pending # NoPending /\ Other(leg) \notin pending.sent /\ AtTarget(leg)

Defer(leg) ==
    /\ thread[leg].pc = "filled"
    /\ IF Ready(leg)
       THEN /\ pending' = [pending EXCEPT !.sent = @ \cup {Other(leg)}]
            /\ Goes(leg, Job("second", pending))
       ELSE Goes(leg, Idle) /\ UNCHANGED pending
    /\ UNCHANGED <<units, blocks, orders, started, clean>>

PlaceSecond(leg) ==
    LET p == thread[leg].p IN
    /\ thread[leg].pc = "second"
    /\ \/ /\ Accept(LegOrder(p, "second", Other(leg)))
          /\ Goes(leg, Idle) /\ UNCHANGED pending
       \/ /\ p.signal = "ENTER"            \* adjusted basis below its threshold
          /\ Goes(leg, [pc |-> "failing"]) /\ UNCHANGED <<orders, pending>>
       \/ /\ Flag(p, pending.sent \ {Other(leg)})  \* refused, or no market
          /\ Goes(leg, Idle) /\ UNCHANGED orders
    /\ UNCHANGED <<units, blocks, started, clean>>

-----------------------------------------------------------------------------
(* _handle_second_leg_fok_failure, then the flatten order outside the lock. *)

SecondFails(t) ==
    /\ thread[t].pc = "failing"
    /\ IF pending = NoPending \/ pending.handled
       THEN Goes(t, Idle) /\ UNCHANGED <<pending, blocks>>
       ELSE /\ pending' = [pending EXCEPT !.handled = TRUE]
            /\ blocks' = blocks \cup {"cooling"}
            /\ Goes(t, IF Flattens THEN Job("flatten", pending) ELSE Idle)
    /\ UNCHANGED <<units, orders, started, clean>>

PlaceFlatten(t) ==
    LET p == thread[t].p IN
    /\ thread[t].pc = "flatten"
    /\ \/ Accept(FlattenOrder(p))
       \/ UNCHANGED orders
    /\ Goes(t, Idle)
    /\ UNCHANGED <<units, pending, blocks, started, clean>>

-----------------------------------------------------------------------------
(* Order reports: a killed or rejected order, on the leg's callback thread. *)
(* The report is taken for the pending pair order, whichever order it is of.*)

Report(i, outcome) ==
    LET o == orders[i]  t == o.leg IN
    /\ thread[t] = Idle
    /\ o.live /\ o.left = o.qty
    /\ orders' = [orders EXCEPT ![i].live = FALSE]
    /\ IF pending = NoPending \/ o.tif # "FOK"
       THEN UNCHANGED <<pending, blocks, thread>>
       ELSE IF pending.first = t
       THEN /\ pending' = NoPending
            /\ blocks' = IF outcome = "reject" THEN blocks \cup {"disabled"} ELSE blocks
            /\ UNCHANGED thread
       ELSE IF t \notin pending.sent \/ pending.handled
       THEN UNCHANGED <<pending, blocks, thread>>
       ELSE /\ blocks' = IF outcome = "reject" THEN blocks \cup {"disabled"} ELSE blocks
            /\ Goes(t, [pc |-> "failing"]) /\ UNCHANGED pending
    /\ UNCHANGED <<units, started, clean>>

(* _is_fok_partial_abnormal *)
PartOnly(o) == o.tif = "FOK" /\ o.left < o.qty

(* A fill-or-kill order reported as filled in part; it may still fill.      *)
PartialReport(i) ==
    LET o == orders[i] IN
    /\ thread[o.leg] = Idle
    /\ o.live /\ PartOnly(o)
    /\ orders' \in {orders, [orders EXCEPT ![i].live = FALSE]}
    /\ blocks' = IF pending = NoPending THEN blocks ELSE blocks \cup {"disabled", "locked"}
    /\ UNCHANGED <<units, pending, thread, started, clean>>

(* The rest of an immediate-or-cancel order is cancelled.                   *)
CancelRest(i) ==
    /\ orders[i].live /\ orders[i].left < orders[i].qty /\ orders[i].tif = "IOC"
    /\ orders' = [orders EXCEPT ![i].live = FALSE]
    /\ UNCHANGED <<units, pending, blocks, thread, started, clean>>

-----------------------------------------------------------------------------
(* Timeouts, found by the strategy loop between its other steps.            *)

TimedOutLeg == IF Other(pending.first) \in pending.sent THEN "second" ELSE "first"

Overdue ==
    LET m == thread["main"] IN
    /\ m.pc \in {"idle", "route"}
    /\ pending # NoPending /\ ~pending.handled
    /\ blocks' = blocks \cup {"locked"}
    /\ Goes("main", IF TimedOutLeg = "second" THEN [pc |-> "failing"] ELSE Job("expire", pending))
    /\ UNCHANGED <<units, pending, orders, started, clean>>

StillNever(p) == FALSE                    \* mutant: compared with a copy
StillPending(p) == pending.id = p.id

Expire ==
    LET m == thread["main"] IN
    /\ m.pc = "expire"
    /\ IF StillPending(m.p)
       THEN pending' = NoPending /\ blocks' = blocks \cup {"disabled"}
       ELSE UNCHANGED <<pending, blocks>>
    /\ Goes("main", Idle)
    /\ UNCHANGED <<units, orders, started, clean>>

CooldownEnds ==
    /\ "cooling" \in blocks
    /\ blocks' = blocks \ {"cooling"}
    /\ UNCHANGED <<units, pending, orders, thread, started, clean>>

-----------------------------------------------------------------------------
Main == Evaluate \/ Route \/ Store \/ PlaceFirst \/ MarkSent \/ Overdue \/ Expire
Callback(leg) == Defer(leg) \/ PlaceSecond(leg)
Failure(t) == SecondFails(t) \/ PlaceFlatten(t)
Broker(i) ==
    \/ \E k \in 1..orders[i].left : Fill(i, k)
    \/ \E outcome \in {"nofill", "reject"} : Report(i, outcome)
    \/ PartialReport(i)
    \/ CancelRest(i)

Next ==
    \/ Main
    \/ \E leg \in Legs : Callback(leg)
    \/ \E t \in Threads : Failure(t)
    \/ \E i \in DOMAIN orders : Broker(i)
    \/ CooldownEnds

(* The threads run; and the loop looks for overdue orders on every pass, so  *)
(* one that stays pending is found in the end.                              *)
Fairness ==
    /\ WF_vars(Route \/ Store \/ PlaceFirst \/ MarkSent \/ Expire)
    /\ \A leg \in Legs : WF_vars(Callback(leg))
    /\ \A t \in Threads : WF_vars(Failure(t))
    /\ SF_vars(Overdue)

Spec == Init /\ [][Next]_vars
FairSpec == Spec /\ Fairness

-----------------------------------------------------------------------------
(* Properties *)

Balanced == units["stock"] = units["future"]
NoneLive == \A i \in DOMAIN orders : ~orders[i].live
Quiet == NoneLive /\ \A t \in Threads : thread[t] = Idle

(* Orders of one pair order: each is sent once at most, and the second leg  *)
(* and the flatten order only after the first leg was filled whole.  The    *)
(* fill of a first leg may be called back before the call that placed it    *)
(* returns, a timeout may meet the fill it waited for, and both may find    *)
(* the flags of the pair order half set.  Holds of pair orders started      *)
(* clean.                                                                   *)
OrdersFollowThePlan ==
    clean => \A j \in DOMAIN orders :
        /\ \A i \in 1..(j - 1) : ~(orders[i].pid = orders[j].pid /\ orders[i].role = orders[j].role)
        /\ orders[j].role # "first" =>
              \E i \in 1..(j - 1) : /\ orders[i].pid = orders[j].pid
                                    /\ orders[i].role = "first" /\ orders[i].left = 0

(* When everything has come to rest with one leg filled and not the other,  *)
(* the router has not forgotten it: the pair order is still pending, or new *)
(* entries are locked or disabled.  A late fill of an order given up, a     *)
(* second leg that could not be sent, a flatten order not filled are the    *)
(* ways to get there.                                                       *)
NakedLegIsHeld ==
    clean /\ Quiet /\ ~Balanced => pending # NoPending \/ blocks \cap {"disabled", "locked"} # {}

(* A pending pair order is filled, released or handed to the failure        *)
(* handling in the end, even if no report of its orders ever arrives.       *)
PendingSettles == (pending # NoPending /\ ~pending.handled) ~> (pending = NoPending \/ pending.handled)

=============================================================================
