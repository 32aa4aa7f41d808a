----------------------------- MODULE PairSession -----------------------------
(***************************************************************************)
(* What the replay session of one pair promises to whoever drives it event *)
(* by event (the coordinated event session of HbtPairBacktester): it hands  *)
(* out one strategy event at a time, and the driver's answer decides        *)
(* whether the pair order of that event is sent.  A pair order is one step  *)
(* here: it opens or closes one pair, changes nothing, or leaves its first  *)
(* leg unhedged.  PairExecution implements this module order by order, and  *)
(* DateBacktests drives several sessions through Advanced and Resolved.     *)
(***************************************************************************)
EXTENDS Integers

CONSTANTS
    Sides,          \* subset of {"LONG", "SHORT"}: entries the pair may make
    MaxPairs,       \* PairConfig.max_pairs
    Interval,       \* PairConfig.min_entry_interval_sec
    MaxSteps,       \* HbtPairBacktestConfig.max_steps
    Times           \* values of the clock; TLC takes 0..n, a bound

VARIABLE session

Never == -1         \* no entry yet
NoEvent == [ts |-> Never, signal |-> "NONE", go |-> FALSE]

Fresh == [phase |-> "open", steps |-> 0, busy |-> 0, event |-> NoEvent,
          pairs |-> 0, naked |-> 0, entered |-> Never, filled |-> FALSE]

From(t) == {x \in Times : x >= t}

Sgn(n) == IF n > 0 THEN 1 ELSE IF n < 0 THEN -1 ELSE 0

(* The units a signal adds to each leg, seen in the pair's direction.       *)
Sign(signal, direction) ==
    CASE signal = "LONG" -> 1
      [] signal = "SHORT" -> -1
      [] OTHER -> -direction

(* Signals the engine may give, and whether the risk check may pass them.   *)
Signals(direction) ==
    {"HOLD"} \cup (IF direction = 0 THEN Sides ELSE {"EXIT"} \cup {d \in Sides : Sign(d, 0) = direction})
MayGo(signal, quantity, entered, ts) ==
    \/ signal = "EXIT"
    \/ /\ signal \in Sides /\ quantity < MaxPairs
       /\ entered = Never \/ ts - entered >= Interval

(* What s may become by advancing to its next event, if there is one ...    *)
Over(s) == [s EXCEPT !.phase = "over"]
Handed(s, e) == [s EXCEPT !.steps = @ + 1, !.event = e, !.busy = e.ts]

Advanced(s) ==
    {Over(s)} \cup
    IF s.steps >= MaxSteps THEN {} ELSE
    {Handed(s, e) :
        e \in {x \in [ts : From(s.busy), signal : Signals(Sgn(s.pairs)), go : BOOLEAN] :
                x.go => MayGo(x.signal, s.pairs * Sgn(s.pairs), s.entered, x.ts)}}

(* ... and by resolving it, the driver having blocked it or not: the pair    *)
(* order, over at t, changes nothing or is undone, leaves its first leg      *)
(* unhedged, or opens or closes a pair.                                      *)
Dropped(s) == [s EXCEPT !.event = NoEvent, !.filled = FALSE]
Undone(s, t) == [Dropped(s) EXCEPT !.busy = t]
LeftNaked(s, t, d) == [Dropped(s) EXCEPT !.busy = t, !.naked = @ + d]
Traded(s, t, d, entry) ==
    [Dropped(s) EXCEPT !.busy = t, !.pairs = @ + d, !.filled = entry,
                       !.entered = IF entry THEN s.event.ts ELSE @]

Resolved(s, blocked) ==
    LET e == s.event
        d == Sign(e.signal, Sgn(s.pairs))
    IN  IF ~e.go \/ blocked THEN {Dropped(s)}
        ELSE UNION {{Undone(s, t), LeftNaked(s, t, d), Traded(s, t, d, e.signal \in Sides)} : t \in From(e.ts)}

Init == session = Fresh

Advance ==
    /\ session.phase = "open" /\ session.event = NoEvent
    /\ session' \in Advanced(session)

Resolve ==
    /\ session.phase = "open" /\ session.event # NoEvent
    /\ \/ \E blocked \in BOOLEAN : session' \in Resolved(session, blocked)
       \/ session.event.go /\ session' = [session EXCEPT !.phase = "failed"]

Next == Advance \/ Resolve
Spec == Init /\ [][Next]_session
=============================================================================
