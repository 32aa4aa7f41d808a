---------------------------- MODULE OrderTimeline ----------------------------
(***************************************************************************)
(* What the replay engine promises a strategy about time, with no rows, no  *)
(* books and no schedule: each order is decided at one instant and answered *)
(* at a later one, both fixed by the latencies when the step before them    *)
(* happens, and the clock moves freely but never past an instant at which   *)
(* an order is still owed something.                                        *)
(***************************************************************************)
EXTENDS Integers

CONSTANTS Orders, MaxTs

VARIABLES
    clock,
    latency,    \* per order: [entry, response], fixed
    phase,      \* per order: "unsent", "sent", "decided" or "answered"
    due,        \* per order: the instant it is owed its next step
    verdict     \* per order: "none", "FILLED" or "EXPIRED"

timeline == <<clock, latency, phase, due, verdict>>

Capped(t) == IF t > MaxTs THEN MaxTs ELSE t

Owed == { o \in Orders : phase[o] \in {"sent", "decided"} }

\* The clock may be moved to `t`.
Reachable(t) == clock <= t /\ \A o \in Owed : t <= due[o]

Init ==
    /\ clock \in 0 .. MaxTs
    /\ latency \in [Orders -> [entry : Nat, response : Nat]]
    /\ phase = [o \in Orders |-> "unsent"]
    /\ due = [o \in Orders |-> 0]
    /\ verdict = [o \in Orders |-> "none"]

Pass ==
    /\ Reachable(clock')
    /\ UNCHANGED <<latency, phase, due, verdict>>

Send(o) ==
    /\ phase[o] = "unsent"
    /\ phase' = [phase EXCEPT ![o] = "sent"]
    /\ due' = [due EXCEPT ![o] = Capped(clock + latency[o].entry)]
    /\ UNCHANGED <<clock, latency, verdict>>

Decide(o) ==
    /\ phase[o] = "sent"
    /\ Reachable(due[o]) /\ clock' = due[o]
    /\ phase' = [phase EXCEPT ![o] = "decided"]
    /\ due' = [due EXCEPT ![o] = Capped(@ + latency[o].response)]
    /\ \E v \in {"FILLED", "EXPIRED"} : verdict' = [verdict EXCEPT ![o] = v]
    /\ UNCHANGED latency

Answer(o) ==
    /\ phase[o] = "decided"
    /\ Reachable(due[o]) /\ clock' = due[o]
    /\ phase' = [phase EXCEPT ![o] = "answered"]
    /\ UNCHANGED <<latency, due, verdict>>

Next == Pass \/ \E o \in Orders : Send(o) \/ Decide(o) \/ Answer(o)

Spec == Init /\ [][Next]_timeline
=============================================================================
