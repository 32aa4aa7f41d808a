----------------------- MODULE LivePairOrders_proofs -----------------------
(***************************************************************************)
(* Proofs about the live order router, for any lot, any number of pair      *)
(* orders, both directions and any interleaving of the strategy loop with   *)
(* the two callback threads and the broker.                                 *)
(*                                                                         *)
(* Types and identities (Typed) hold whatever happens.  The rest (Clean) is *)
(* about the pair order last started, as long as every pair order was       *)
(* started clean: every live order, every job of a thread is then of it     *)
(* (Current) and agrees with one sign, size and first leg (OnePlan).        *)
(*                                                                         *)
(* OrdersFollowThePlan rests on the flags: a leg marked as sent, a failure  *)
(* handled, a job about to send a second leg or a flatten order mean that   *)
(* the first leg was filled whole (FailureAfterFirst, SecondJobs,           *)
(* FlattenJobs), and the orders accepted are marked (Flags).  The last leg  *)
(* filled may find the other one not marked as sent although it was: what   *)
(* the legs lack of their targets tells (Amounts), since it is what the     *)
(* orders have left.                                                        *)
(*                                                                         *)
(* NakedLegIsHeld rests on the targets: unless entries are locked, they are *)
(* the same number of units for both legs (Unlocked), so a pair order ended *)
(* with both legs at their targets, both at their start, or the first leg   *)
(* flattened, leaves the position balanced.  That the second leg cannot     *)
(* fill any more once its failure is handled is SecondIsOff; a timeout is   *)
(* the exception, and locks.                                                *)
(***************************************************************************)
EXTENDS LivePairOrders, SequenceTheorems, TLAPS

-----------------------------------------------------------------------------
\* Types.

PairOrders == [id : Nat \ {0}, signal : {"ENTER", "EXIT"}, sign : {1, -1}, qty : Nat \ {0},
               first : Legs, sent : SUBSET Legs, handled : BOOLEAN, target : [Legs -> Int]]
Orders == [pid : Nat \ {0}, role : {"first", "second", "flatten"}, leg : Legs, sign : {1, -1},
           qty : Nat \ {0}, tif : {"FOK", "IOC"}, left : Nat, live : BOOLEAN]
LegJobs == [pc : {"second", "flatten"}, p : PairOrders]
MainJobs == [pc : {"place", "placed", "flatten", "expire"}, p : PairOrders]
Routes == [pc : {"route"}, signal : {"ENTER", "EXIT"}, d : {1, -1}, seen : [Legs -> Int]]
Stores == [pc : {"store"}, p : PairOrders, seen : [Legs -> Int]]
Plain == [pc : {"idle", "filled", "failing"}]

TypeOK ==
    /\ units \in [Legs -> Int]
    /\ pending \in PairOrders \cup {NoPending}
    /\ blocks \subseteq {"disabled", "locked", "cooling"}
    /\ orders \in Seq(Orders)
    /\ \A i \in DOMAIN orders : orders[i].left <= orders[i].qty /\ (orders[i].live => orders[i].left > 0)
    /\ DOMAIN thread = Threads
    /\ \A l \in Legs : thread[l] \in Plain \cup LegJobs
    /\ thread["main"] \in Plain \cup Routes \cup Stores \cup MainJobs
    /\ started \in Nat
    /\ clean \in BOOLEAN

-----------------------------------------------------------------------------
\* Entries are locked or disabled, and not only cooling down.
Locked == blocks \cap {"disabled", "locked"} # {}
\* Order i is the one of that role of the pair order last started.
Mine(i, role) == orders[i].pid = started /\ orders[i].role = role
Has(role) == \E i \in DOMAIN orders : Mine(i, role)
FirstDone == \E i \in DOMAIN orders : Mine(i, "first") /\ orders[i].left = 0
Waits == pending # NoPending
Second == Other(pending.first)

\* Who has which identity.
LegIds == \A l \in Legs : thread[l].pc \in {"second", "flatten"} => thread[l].p.id <= started
Identities ==
    /\ \A i \in DOMAIN orders : orders[i].pid <= started
    /\ \A i \in DOMAIN orders : orders[i].role = "flatten" => orders[i].tif = FlattenTif
    /\ Waits => pending.id = started
    /\ thread["main"].pc = "store" => thread["main"].p.id = started + 1
    /\ thread["main"].pc \in {"place", "placed", "flatten", "expire"} => thread["main"].p.id = started
    /\ thread["main"].pc \in {"failing", "flatten", "expire"} => Locked
    /\ LegIds

\* With clean: only the last pair order is under way.
Current ==
    /\ \A i \in DOMAIN orders : orders[i].live => orders[i].pid = started
    /\ \A l \in Legs : thread[l].pc \in {"second", "flatten"} => thread[l].p.id = started

\* What is under way agrees on the sign, the size and the first leg.
Working(t) == thread[t].pc \in {"place", "placed", "second", "flatten", "expire"}
Plan(s, q, f) ==
    /\ Waits => pending.sign = s /\ pending.qty = q /\ pending.first = f
    /\ \A t \in Threads : Working(t) => thread[t].p.sign = s /\ thread[t].p.qty = q /\ thread[t].p.first = f
    /\ \A i \in DOMAIN orders : orders[i].pid = started =>
          /\ orders[i].qty = q
          /\ orders[i].leg = IF orders[i].role = "second" THEN Other(f) ELSE f
          /\ orders[i].sign = IF orders[i].role = "flatten" THEN -s ELSE s
OnePlan == \E s \in {1, -1}, q \in Nat \ {0}, f \in Legs : Plan(s, q, f)

\* Until the first leg is sent, nothing has happened.
Placing ==
    /\ thread["main"].pc = "store" => thread["main"].p.sent = {} /\ ~thread["main"].p.handled
    /\ thread["main"].pc = "place" =>
        /\ Settled /\ pending = thread["main"].p
        /\ pending.sent = {} /\ ~pending.handled
        /\ \A i \in DOMAIN orders : orders[i].pid # started

\* The orders, by role.
OnceEach == \A i, j \in DOMAIN orders : orders[i].pid = orders[j].pid /\ orders[i].role = orders[j].role => i = j
AfterFirst ==
    \A j \in DOMAIN orders : orders[j].role # "first" =>
        \E i \in 1..(j - 1) : orders[i].pid = orders[j].pid /\ orders[i].role = "first" /\ orders[i].left = 0

\* What a thread about to send an order knows.
SecondJobs ==
    \A l \in Legs : thread[l].pc = "second" =>
        /\ l = thread[l].p.first /\ FirstDone /\ ~Has("second")
        /\ Waits => Second \in pending.sent
FlattenJobs ==
    \A t \in Threads : thread[t].pc = "flatten" =>
        /\ FirstDone /\ ~Has("flatten")
        /\ Waits => pending.handled
        /\ \A u \in Threads : thread[u].pc = "flatten" => u = t

\* What the flags of the pending pair order say.
FailureAfterFirst ==
    Waits =>
        /\ (\E t \in Threads : thread[t].pc = "failing") => FirstDone
        /\ Second \in pending.sent => FirstDone
        /\ pending.handled => FirstDone
Flags ==
    Waits =>
        /\ thread["main"].pc # "place" => Has("first")
        /\ Has("second") => Second \in pending.sent
        /\ Has("flatten") => pending.handled
        /\ pending.first \notin pending.sent => thread["main"].pc \in {"place", "placed"}

\* How far a leg is from its target.
ShortAt(u, l) == IF pending.sign = 1 THEN pending.target[l] - u[l] ELSE u[l] - pending.target[l]
Short(l) == ShortAt(units, l)
Amounts ==
    Waits =>
        /\ ~Has("first") => Short(pending.first) = pending.qty
        /\ \A i \in DOMAIN orders : Mine(i, "first") =>
              /\ ~Has("flatten") => Short(pending.first) = orders[i].left
              /\ \A j \in DOMAIN orders : Mine(j, "flatten") =>
                    Short(pending.first) = orders[i].left + orders[j].qty - orders[j].left
        /\ ~Has("second") => Short(Second) = pending.qty
        /\ \A i \in DOMAIN orders : Mine(i, "second") => Short(Second) = orders[i].left
        /\ \E l \in Legs : Short(l) # 0

\* A second leg whose failure is handled, or about to be, is not filled and
\* will not be, except after a timeout of a pair order marked as sent.
Failed == pending.handled \/ \E l \in Legs : thread[l].pc = "failing"
SecondIsOff ==
    Waits /\ Failed /\ (pending.first \notin pending.sent \/ ~Locked) =>
        /\ Second \in pending.sent
        /\ \A l \in Legs : thread[l].pc # "second"
        /\ \A i \in DOMAIN orders : Mine(i, "second") => ~orders[i].live /\ orders[i].left = orders[i].qty

\* With an immediate-or-cancel flatten order.
Unlocked ==
    ~Locked =>
        IF Waits THEN pending.target["stock"] = pending.target["future"]
        ELSE /\ Balanced /\ NoneLive
             /\ \A l \in Legs : thread[l].pc \notin {"second", "flatten"}

Clean ==
    /\ Current /\ OnePlan /\ Placing
    /\ OnceEach /\ AfterFirst /\ SecondJobs /\ FlattenJobs
    /\ FailureAfterFirst /\ Flags /\ Amounts /\ SecondIsOff
    /\ FlattenTif = "IOC" => Unlocked

Inv == TypeOK /\ Identities /\ (clean => Clean)

-----------------------------------------------------------------------------
LEMMA InitInv == Init => Inv
<1> SUFFICES ASSUME Init PROVE Inv
    OBVIOUS
<1>1. TypeOK
    BY DEF Init, TypeOK, Idle, Plain, Threads, Legs
<1>2. Identities
    BY DEF Init, Identities, LegIds, Waits, Idle, Threads, Legs
<1>3. Clean
    <2>1. Current /\ Placing /\ OnceEach /\ AfterFirst
        BY DEF Init, Current, Placing, OnceEach, AfterFirst, Idle, Threads, Legs
    <2>2. OnePlan
        <3>1. Plan(1, 1, "stock")
            BY DEF Init, Plan, Waits, Working, Idle
        <3> QED  BY <3>1 DEF OnePlan, Legs
    <2>3. SecondJobs /\ FlattenJobs
        BY DEF Init, SecondJobs, FlattenJobs, Idle, Threads, Legs
    <2>4. FailureAfterFirst /\ Flags /\ Amounts /\ SecondIsOff
        BY DEF Init, FailureAfterFirst, Flags, Amounts, SecondIsOff, Waits
    <2>5. Unlocked
        BY DEF Init, Unlocked, Waits, Balanced, NoneLive, Idle, Threads, Legs
    <2> QED  BY <2>1, <2>2, <2>3, <2>4, <2>5 DEF Clean
<1> QED  BY <1>1, <1>2, <1>3 DEF Inv

-----------------------------------------------------------------------------
\* What thread t does leaves the other threads alone.
LEMMA GoesOn ==
    ASSUME TypeOK, NEW t \in Threads, NEW j, Goes(t, j)
    PROVE  /\ DOMAIN thread' = Threads
           /\ thread'[t] = j
           /\ \A u \in Threads : u # t => thread'[u] = thread[u]
BY DEF TypeOK, Goes

LEMMA JobTypes ==
    ASSUME TypeOK
    PROVE  /\ \A l \in Legs :
                 /\ thread[l].pc \in {"idle", "filled", "failing", "second", "flatten"}
                 /\ (thread[l] = Idle <=> thread[l].pc = "idle")
                 /\ (thread[l].pc \in {"second", "flatten"} => thread[l].p \in PairOrders)
           /\ LET m == thread["main"] IN
              /\ m.pc \in {"idle", "filled", "failing", "route", "store", "place", "placed", "flatten", "expire"}
              /\ (m = Idle <=> m.pc = "idle")
              /\ (m.pc \in {"store", "place", "placed", "flatten", "expire"} => m.p \in PairOrders)
              /\ (m.pc \in {"route", "store"} => m.seen \in [Legs -> Int])
              /\ (m.pc = "route" => m.signal \in {"ENTER", "EXIT"} /\ m.d \in {1, -1})
<1>1. \A l \in Legs : thread[l] \in Plain \cup LegJobs
    BY DEF TypeOK
<1>2. thread["main"] \in Plain \cup Routes \cup Stores \cup MainJobs
    BY DEF TypeOK
<1>3. \A j \in Plain : j.pc \in {"idle", "filled", "failing"} /\ (j = Idle <=> j.pc = "idle")
    BY DEF Plain, Idle
<1>4. \A j \in LegJobs : j.pc \in {"second", "flatten"} /\ j # Idle /\ j.p \in PairOrders
    BY DEF LegJobs, Idle
<1>5. \A j \in MainJobs : j.pc \in {"place", "placed", "flatten", "expire"} /\ j # Idle /\ j.p \in PairOrders
    BY DEF MainJobs, Idle
<1>6. \A j \in Routes : /\ j.pc = "route" /\ j # Idle /\ j.signal \in {"ENTER", "EXIT"} 
                         /\ j.d \in {1, -1} /\ j.seen \in [Legs -> Int]
    BY DEF Routes, Idle
<1>7. \A j \in Stores : j.pc = "store" /\ j # Idle /\ j.p \in PairOrders /\ j.seen \in [Legs -> Int]
    BY DEF Stores, Idle
<1>8. \A l \in Legs :
          /\ thread[l].pc \in {"idle", "filled", "failing", "second", "flatten"}
          /\ (thread[l] = Idle <=> thread[l].pc = "idle")
          /\ (thread[l].pc \in {"second", "flatten"} => thread[l].p \in PairOrders)
    BY <1>1, <1>3, <1>4
<1> QED
    BY <1>8, <1>2, <1>3, <1>5, <1>6, <1>7

LEMMA PlainJobs == Idle \in Plain /\ [pc |-> "filled"] \in Plain /\ [pc |-> "failing"] \in Plain
BY DEF Idle, Plain

LEMMA PlainPcs == \A j \in Plain : j.pc \notin {"second", "flatten"}
BY DEF Plain

LEMMA ThreadTypes ==
    ASSUME TypeOK, NEW t \in Threads, NEW j, Goes(t, j),
           t \in Legs => j \in Plain \cup LegJobs,
           t = "main" => j \in Plain \cup Routes \cup Stores \cup MainJobs
    PROVE  /\ DOMAIN thread' = Threads
           /\ \A l \in Legs : thread'[l] \in Plain \cup LegJobs
           /\ thread'["main"] \in Plain \cup Routes \cup Stores \cup MainJobs
<1>1. "main" \in Threads /\ Legs \subseteq Threads
    BY DEF Threads
<1> QED  BY <1>1, GoesOn DEF TypeOK

\* An order a step changes keeps what it is; it only fills or ends.
Changed ==
    /\ orders' \in Seq(Orders)
    /\ DOMAIN orders' = DOMAIN orders
    /\ \A j \in DOMAIN orders :
          /\ orders'[j].pid = orders[j].pid /\ orders'[j].role = orders[j].role
          /\ orders'[j].leg = orders[j].leg /\ orders'[j].sign = orders[j].sign
          /\ orders'[j].qty = orders[j].qty /\ orders'[j].tif = orders[j].tif
          /\ orders'[j].left <= orders[j].left /\ (orders'[j].live => orders[j].live)
          /\ orders'[j].left <= orders'[j].qty /\ (orders'[j].live => orders'[j].left > 0)

LEMMA OrderTypes ==
    ASSUME TypeOK
    PROVE  /\ DOMAIN orders = 1..Len(orders) /\ Len(orders) \in Nat
           /\ \A i \in DOMAIN orders :
                 /\ orders[i] \in Orders
                 /\ orders[i].pid \in Nat \ {0} /\ orders[i].role \in {"first", "second", "flatten"}
                 /\ orders[i].leg \in Legs /\ orders[i].sign \in {1, -1}
                 /\ orders[i].qty \in Nat \ {0} /\ orders[i].tif \in {"FOK", "IOC"}
                 /\ orders[i].left \in Nat /\ orders[i].live \in BOOLEAN
                 /\ orders[i].left <= orders[i].qty /\ (orders[i].live => orders[i].left > 0)
<1>1. orders \in Seq(Orders) /\ \A i \in DOMAIN orders : orders[i].left <= orders[i].qty /\ (orders[i].live => orders[i].left > 0)
    BY DEF TypeOK
<1>2. \A i \in DOMAIN orders : orders[i] \in Orders
    BY <1>1
<1>3. DOMAIN orders = 1..Len(orders) /\ Len(orders) \in Nat
    BY <1>1
<1>4. \A o \in Orders :
                 /\ o.pid \in Nat \ {0} /\ o.role \in {"first", "second", "flatten"}
                 /\ o.leg \in Legs /\ o.sign \in {1, -1}
                 /\ o.qty \in Nat \ {0} /\ o.tif \in {"FOK", "IOC"}
                 /\ o.left \in Nat /\ o.live \in BOOLEAN
    BY DEF Orders
<1> QED  BY <1>1, <1>2, <1>3, <1>4

LEMMA FillChanges ==
    ASSUME TypeOK, NEW i \in DOMAIN orders, NEW k \in 1..orders[i].left, orders[i].live,
           orders' = [orders EXCEPT ![i].left = orders[i].left - k, ![i].live = k < orders[i].left]
    PROVE  /\ Changed
           /\ orders'[i].left = orders[i].left - k
           /\ \A j \in DOMAIN orders : j # i => orders'[j] = orders[j]
<1>1. orders \in Seq(Orders) /\ \A j \in DOMAIN orders : orders[j] \in Orders
    BY OrderTypes DEF TypeOK
<1> DEFINE o == [orders[i] EXCEPT !.left = orders[i].left - k, !.live = k < orders[i].left]
<1>2. orders' = [orders EXCEPT ![i] = o]
    BY <1>1 DEF Orders
<1>3. o \in Orders /\ o.left = orders[i].left - k /\ (o.live <=> k < orders[i].left)
      /\ o.pid = orders[i].pid /\ o.role = orders[i].role /\ o.leg = orders[i].leg
      /\ o.sign = orders[i].sign /\ o.qty = orders[i].qty /\ o.tif = orders[i].tif
    <2> DEFINE left == orders[i].left - k
               live == k < orders[i].left
    <2>1. left \in Nat /\ live \in BOOLEAN
        BY OrderTypes
    <2>2. orders[i] \in Orders
        BY <1>1
    <2> HIDE DEF left, live
    <2>3. [orders[i] EXCEPT !.left = left, !.live = live] \in Orders
        BY <2>1, <2>2 DEF Orders
    <2> QED  BY <2>2, <2>3 DEF Orders, left, live
<1> HIDE DEF o
<1>4. orders' \in Seq(Orders) /\ DOMAIN orders' = DOMAIN orders
    <2>1. i \in 1..Len(orders) /\ o \in Orders
        BY <1>1, <1>3
    <2>2. [orders EXCEPT ![i] = o] \in Seq(Orders)
        BY <2>1, <1>1, ExceptSeq
    <2> QED  BY <1>2, <2>2
<1>5. orders'[i] = o /\ \A j \in DOMAIN orders : j # i => orders'[j] = orders[j]
    BY <1>1, <1>2
<1>6. \A j \in DOMAIN orders :
          /\ orders'[j].pid = orders[j].pid /\ orders'[j].role = orders[j].role
          /\ orders'[j].leg = orders[j].leg /\ orders'[j].sign = orders[j].sign
          /\ orders'[j].qty = orders[j].qty /\ orders'[j].tif = orders[j].tif
    BY <1>3, <1>5
<1>7. \A j \in DOMAIN orders : 
          /\ orders'[j].left <= orders[j].left /\ (orders'[j].live => orders[j].live)
          /\ orders'[j].left <= orders'[j].qty /\ (orders'[j].live => orders'[j].left > 0)
    <2> SUFFICES ASSUME NEW j \in DOMAIN orders
        PROVE /\ orders'[j].left <= orders[j].left /\ (orders'[j].live => orders[j].live)
              /\ orders'[j].left <= orders'[j].qty /\ (orders'[j].live => orders'[j].left > 0)
        OBVIOUS
    <2>1. CASE j # i
        BY <2>1, <1>5, OrderTypes
    <2>2. CASE j = i
        BY <2>2, <1>3, <1>5, OrderTypes
    <2> QED  BY <2>1, <2>2
<1> QED  BY <1>3, <1>4, <1>5, <1>6, <1>7 DEF Changed

LEMMA KillChanges ==
    ASSUME TypeOK, NEW i \in DOMAIN orders,
           orders' = [orders EXCEPT ![i].live = FALSE]
    PROVE  /\ Changed
           /\ ~orders'[i].live
           /\ \A j \in DOMAIN orders : orders'[j].left = orders[j].left
           /\ \A j \in DOMAIN orders : j # i => orders'[j] = orders[j]
<1>1. orders \in Seq(Orders) /\ \A j \in DOMAIN orders : orders[j] \in Orders
    BY OrderTypes DEF TypeOK
<1> DEFINE o == [orders[i] EXCEPT !.live = FALSE]
<1>2. orders' = [orders EXCEPT ![i] = o]
    BY <1>1 DEF Orders
<1>3. o \in Orders /\ o.left = orders[i].left /\ ~o.live
      /\ o.pid = orders[i].pid /\ o.role = orders[i].role /\ o.leg = orders[i].leg
      /\ o.sign = orders[i].sign /\ o.qty = orders[i].qty /\ o.tif = orders[i].tif
    BY <1>1, OrderTypes DEF Orders
<1> HIDE DEF o
<1>4. orders' \in Seq(Orders) /\ DOMAIN orders' = DOMAIN orders
    <2>1. i \in 1..Len(orders) /\ o \in Orders
        BY <1>1, <1>3
    <2>2. [orders EXCEPT ![i] = o] \in Seq(Orders)
        BY <2>1, <1>1, ExceptSeq
    <2> QED  BY <1>2, <2>2
<1>5. orders'[i] = o /\ \A j \in DOMAIN orders : j # i => orders'[j] = orders[j]
    BY <1>1, <1>2
<1>6. \A j \in DOMAIN orders :
          /\ orders'[j].pid = orders[j].pid /\ orders'[j].role = orders[j].role
          /\ orders'[j].leg = orders[j].leg /\ orders'[j].sign = orders[j].sign
          /\ orders'[j].qty = orders[j].qty /\ orders'[j].tif = orders[j].tif
          /\ orders'[j].left = orders[j].left /\ (orders'[j].live => orders[j].live)
    BY <1>3, <1>5
<1>7. \A j \in DOMAIN orders : orders'[j].left <= orders[j].left /\ orders'[j].left <= orders'[j].qty
                               /\ (orders'[j].live => orders'[j].left > 0)
    BY <1>6, OrderTypes
<1> QED  BY <1>3, <1>4, <1>5, <1>6, <1>7 DEF Changed

LEMMA SameChanges == ASSUME TypeOK, UNCHANGED orders PROVE Changed
BY OrderTypes DEF Changed, TypeOK

\* A new order is live, and not filled at all.
LEMMA AcceptAdds ==
    ASSUME TypeOK, NEW o, Accept(o),
           o.pid \in Nat \ {0}, o.role \in {"first", "second", "flatten"}, o.leg \in Legs,
           o.sign \in {1, -1}, o.qty \in Nat \ {0}, o.tif \in {"FOK", "IOC"}
    PROVE  LET n == Len(orders) + 1 IN
           /\ orders' \in Seq(Orders)
           /\ DOMAIN orders' = 1..n /\ n \notin DOMAIN orders
           /\ \A i \in DOMAIN orders : i < n /\ i \in DOMAIN orders' /\ orders'[i] = orders[i]
           /\ \A i \in DOMAIN orders' : i = n \/ i \in DOMAIN orders
           /\ orders'[n].pid = o.pid /\ orders'[n].role = o.role /\ orders'[n].leg = o.leg
           /\ orders'[n].sign = o.sign /\ orders'[n].qty = o.qty /\ orders'[n].left = o.qty
           /\ orders'[n].tif = o.tif /\ orders'[n].live
           /\ \A i \in DOMAIN orders' : orders'[i].left <= orders'[i].qty /\ (orders'[i].live => orders'[i].left > 0)
<1> DEFINE new == [pid |-> o.pid, role |-> o.role, leg |-> o.leg, sign |-> o.sign,
                   qty |-> o.qty, tif |-> o.tif, left |-> o.qty, live |-> TRUE]
<1>1. new \in Orders
    BY DEF Orders
<1>2. orders \in Seq(Orders) /\ orders' = Append(orders, new)
    BY DEF TypeOK, Accept
<1>3. /\ new.pid = o.pid /\ new.role = o.role /\ new.leg = o.leg /\ new.sign = o.sign
      /\ new.qty = o.qty /\ new.left = o.qty /\ new.tif = o.tif /\ new.live
    OBVIOUS
<1> HIDE DEF new
<1>4. /\ orders' \in Seq(Orders) /\ Len(orders') = Len(orders) + 1
      /\ \A i \in 1..Len(orders) : orders'[i] = orders[i]
      /\ orders'[Len(orders) + 1] = new
    BY <1>1, <1>2
<1>5. DOMAIN orders' = 1..(Len(orders) + 1)
    BY <1>4
<1> QED  BY <1>3, <1>4, <1>5, OrderTypes

-----------------------------------------------------------------------------
\* Types, and who has which identity, hold whatever happens.

Typed == TypeOK /\ Identities

OrdersTyped ==
    /\ orders \in Seq(Orders)
    /\ \A i \in DOMAIN orders : /\ orders[i].left <= orders[i].qty /\ (orders[i].live => orders[i].left > 0)
                                /\ orders[i].pid <= started
                                /\ orders[i].role = "flatten" => orders[i].tif = FlattenTif
ThreadTyped ==
    /\ DOMAIN thread = Threads
    /\ \A l \in Legs : thread[l] \in Plain \cup LegJobs
    /\ thread["main"] \in Plain \cup Routes \cup Stores \cup MainJobs
PendingTyped ==
    /\ pending \in PairOrders \cup {NoPending}
    /\ Waits => pending.id = started
MainTyped ==
    /\ thread["main"].pc = "store" => thread["main"].p.id = started + 1
    /\ thread["main"].pc \in {"place", "placed", "flatten", "expire"} => thread["main"].p.id = started
    /\ thread["main"].pc \in {"failing", "flatten", "expire"} => Locked
    /\ LegIds
RestTyped ==
    /\ units \in [Legs -> Int]
    /\ blocks \subseteq {"disabled", "locked", "cooling"}
    /\ started \in Nat /\ clean \in BOOLEAN

LEMMA TypedParts == Typed <=> OrdersTyped /\ ThreadTyped /\ PendingTyped /\ MainTyped /\ RestTyped
BY DEF Typed, TypeOK, Identities, OrdersTyped, ThreadTyped, PendingTyped, MainTyped, RestTyped

LEMMA TypedNext == ASSUME OrdersTyped', ThreadTyped', PendingTyped', MainTyped', RestTyped' PROVE Typed'
BY DEF Typed, TypeOK, Identities, OrdersTyped, ThreadTyped, PendingTyped, MainTyped, RestTyped

LEMMA ChangedTyped == ASSUME Typed, Changed, UNCHANGED started PROVE OrdersTyped'
<1>1. OrdersTyped
    BY TypedParts
<1>2. \A i \in DOMAIN orders : orders'[i].left <= orders'[i].qty /\ (orders'[i].live => orders'[i].left > 0) /\ orders'[i].pid <= started
                                     /\ (orders'[i].role = "flatten" => orders'[i].tif = FlattenTif)
    BY <1>1 DEF Changed, OrdersTyped
<1> QED  BY <1>2 DEF OrdersTyped, Changed

LEMMA AcceptTyped ==
    ASSUME Typed, NEW o, Accept(o), UNCHANGED started,
           o.pid \in Nat \ {0}, o.role \in {"first", "second", "flatten"}, o.leg \in Legs,
           o.sign \in {1, -1}, o.qty \in Nat \ {0}, o.tif \in {"FOK", "IOC"}, o.pid <= started,
           o.role = "flatten" => o.tif = FlattenTif
    PROVE  OrdersTyped'
<1>1. TypeOK /\ OrdersTyped
    BY TypedParts DEF Typed
<1>2. LET n == Len(orders) + 1 IN
           /\ orders' \in Seq(Orders)
           /\ \A i \in DOMAIN orders : orders'[i] = orders[i]
           /\ \A i \in DOMAIN orders' : i = n \/ i \in DOMAIN orders
           /\ orders'[n].pid = o.pid /\ orders'[n].role = o.role /\ orders'[n].tif = o.tif
           /\ \A i \in DOMAIN orders' : orders'[i].left <= orders'[i].qty /\ (orders'[i].live => orders'[i].left > 0)
    BY <1>1, AcceptAdds
<1>3. \A i \in DOMAIN orders' : orders'[i].pid <= started /\ (orders'[i].role = "flatten" => orders'[i].tif = FlattenTif)
    BY <1>1, <1>2 DEF OrdersTyped
<1> QED  BY <1>2, <1>3 DEF OrdersTyped

LEMMA PendingFacts ==
    ASSUME PendingTyped
    PROVE  /\ Waits <=> pending.id # 0
           /\ Waits => /\ pending \in PairOrders
                       /\ pending.id \in Nat \ {0} /\ pending.sign \in {1, -1} /\ pending.qty \in Nat \ {0}
                       /\ pending.first \in Legs /\ pending.sent \subseteq Legs /\ pending.handled \in BOOLEAN
                       /\ pending.target \in [Legs -> Int]
<1>1. \A p \in PairOrders : p.id # 0
    BY DEF PairOrders
<1>2. NoPending.id = 0
    BY DEF NoPending
<1>3. \A p \in PairOrders :
                       /\ p.id \in Nat \ {0} /\ p.sign \in {1, -1} /\ p.qty \in Nat \ {0}
                       /\ p.first \in Legs /\ p.sent \subseteq Legs /\ p.handled \in BOOLEAN
                       /\ p.target \in [Legs -> Int]
    BY DEF PairOrders
<1> QED  BY <1>1, <1>2, <1>3 DEF PendingTyped, Waits

\* Orders a pair order p may send.
LEMMA OrderOfTyped ==
    ASSUME NEW p \in PairOrders, NEW role \in {"first", "second", "flatten"}, NEW leg \in Legs
    PROVE  /\ LET o == LegOrder(p, role, leg) IN
              /\ o.pid = p.id /\ o.role = role /\ o.leg = leg /\ o.sign = p.sign /\ o.qty = p.qty
              /\ o.tif \in {"FOK", "IOC"}
           /\ LET o == FlattenOrder(p) IN
              /\ o.pid = p.id /\ o.role = "flatten" /\ o.leg = p.first /\ o.sign = -p.sign /\ o.qty = p.qty
              /\ o.tif = FlattenTif
           /\ p.id \in Nat \ {0} /\ p.sign \in {1, -1} /\ -p.sign \in {1, -1} /\ p.qty \in Nat \ {0} /\ p.first \in Legs
<1>1. p.id \in Nat \ {0} /\ p.sign \in {1, -1} /\ p.qty \in Nat \ {0} /\ p.first \in Legs
    BY DEF PairOrders
<1> QED  BY <1>1 DEF LegOrder, FlattenOrder

LEMMA FlagFacts ==
    ASSUME PendingTyped, NEW p \in PairOrders, NEW s, Flag(p, s), Waits => s \subseteq Legs, UNCHANGED started
    PROVE  /\ PendingTyped'
           /\ Waits' <=> Waits
           /\ Waits => /\ pending'.id = pending.id /\ pending'.sign = pending.sign /\ pending'.qty = pending.qty
                       /\ pending'.first = pending.first /\ pending'.handled = pending.handled
                       /\ pending'.target = pending.target
                       /\ pending'.sent = IF pending.id = p.id THEN s ELSE pending.sent
<1>1. p.id # 0
    BY DEF PairOrders
<1>2. CASE ~Waits
    <2>1. pending' = pending
        BY <1>1, <1>2, PendingFacts DEF Flag
    <2> QED  BY <1>2, <2>1 DEF PendingTyped, Waits
<1>3. CASE Waits /\ pending.id = p.id
    <2>1. pending \in PairOrders /\ pending' = [pending EXCEPT !.sent = s]
        BY <1>3, PendingFacts DEF Flag
    <2>2. /\ pending' \in PairOrders
          /\ pending'.id = pending.id /\ pending'.sign = pending.sign /\ pending'.qty = pending.qty
          /\ pending'.first = pending.first /\ pending'.handled = pending.handled
          /\ pending'.target = pending.target /\ pending'.sent = s
        BY <2>1, <1>3 DEF PairOrders
    <2>3. Waits'
        BY <2>2, <1>3, <1>1 DEF Waits, NoPending
    <2> QED  BY <1>3, <2>2, <2>3 DEF PendingTyped
<1>4. CASE Waits /\ pending.id # p.id
    BY <1>4 DEF Flag, PendingTyped, Waits
<1> QED  BY <1>2, <1>3, <1>4

LEMMA BlocksGrow ==
    ASSUME blocks \subseteq {"disabled", "locked", "cooling"}, NEW b \in {"disabled", "locked", "cooling"},
           blocks' \in {blocks, blocks \cup {b}, blocks \ {"cooling"}, blocks \cup {"disabled", "locked"}}
    PROVE  blocks' \subseteq {"disabled", "locked", "cooling"} /\ (Locked => Locked')
BY DEF Locked

\* A step of one thread that leaves the position, the counter and the pending
\* pair order alone.
LEMMA LegTyped ==
    ASSUME Typed, NEW l \in Legs, NEW j \in Plain \cup LegJobs, Goes(l, j),
           j.pc \in {"second", "flatten"} => j.p.id <= started, UNCHANGED started, Locked => Locked'
    PROVE  ThreadTyped' /\ MainTyped'
<1>1. ThreadTyped'
    BY ThreadTypes DEF ThreadTyped, Typed, Threads, Legs
<1>2. thread'["main"] = thread["main"] /\ thread'[l] = j /\ \A u \in Legs : u # l => thread'[u] = thread[u]
    BY GoesOn DEF Typed, Threads, Legs
<1>3. LegIds'
    BY <1>2, TypedParts DEF LegIds, MainTyped
<1> QED  BY <1>1, <1>2, <1>3, TypedParts DEF MainTyped

LEMMA MainTypes ==
    ASSUME Typed, NEW j \in Plain \cup Routes \cup Stores \cup MainJobs, Goes("main", j)
    PROVE  /\ ThreadTyped' /\ thread'["main"] = j
           /\ (started' \in {started, started + 1} => LegIds')
<1>1. ThreadTyped' /\ thread'["main"] = j /\ \A l \in Legs : thread'[l] = thread[l]
    BY ThreadTypes, GoesOn DEF ThreadTyped, Typed, Threads, Legs
<1>2. \A l \in Legs : thread[l].pc \in {"second", "flatten"} => thread[l].p.id \in Nat
    BY JobTypes DEF Typed, PairOrders
<1>3. ASSUME started' \in {started, started + 1} PROVE LegIds'
    BY <1>1, <1>2, <1>3, TypedParts DEF LegIds, MainTyped, RestTyped
<1> QED  BY <1>1, <1>3

LEMMA UnitsChange ==
    ASSUME units \in [Legs -> Int], NEW l \in Legs, NEW n \in Int
    PROVE  [units EXCEPT ![l] = @ + n] \in [Legs -> Int]
OBVIOUS

LEMMA QuantityType ==
    ASSUME units \in [Legs -> Int]
    PROVE  Direction \in {1, -1, 0} /\ Quantity \in Nat /\ (Quantity # 0 => Direction # 0)
<1>1. units["stock"] \in Int /\ units["future"] \in Int
    BY DEF Legs
<1> QED  BY <1>1 DEF Direction, Quantity, Least, Abs

LEMMA NewPairOrder ==
    ASSUME units \in [Legs -> Int], started \in Nat, NEW signal \in {"ENTER", "EXIT"}, NEW sign \in {1, -1},
           NEW qty \in Nat \ {0}, NEW f \in Legs
    PROVE  /\ Pending(started + 1, signal, sign, qty, f) \in PairOrders
           /\ Pending(started + 1, signal, sign, qty, f).id = started + 1
           /\ Pending(started + 1, signal, sign, qty, f).sent = {}
           /\ ~Pending(started + 1, signal, sign, qty, f).handled
<1>1. [l \in Legs |-> units[l] + sign * qty] \in [Legs -> Int]
    OBVIOUS
<1> QED  BY <1>1 DEF Pending, PairOrders

LEMMA TypedMain == ASSUME Typed, Main PROVE Typed'
<1>p. OrdersTyped /\ ThreadTyped /\ PendingTyped /\ MainTyped /\ RestTyped /\ TypeOK
    BY TypedParts DEF Typed
<1>m. "main" \in Threads
    BY DEF Threads
<1> DEFINE m == thread["main"]
<1>1. CASE Evaluate
    <2>1. ThreadTyped' /\ MainTyped'
        <3>1. ASSUME NEW d \in Directions, Goes("main", [pc |-> "route", signal |-> "ENTER", d |-> d, seen |-> units])
              PROVE  ThreadTyped' /\ MainTyped'
            <4>1. [pc |-> "route", signal |-> "ENTER", d |-> d, seen |-> units] \in Routes
                BY <1>p, LiveAssumption DEF Routes, RestTyped
            <4> QED  BY <1>1, <3>1, <4>1, MainTypes DEF MainTyped, Evaluate
        <3>2. ASSUME Quantity # 0, Goes("main", [pc |-> "route", signal |-> "EXIT", d |-> Direction, seen |-> units])
              PROVE  ThreadTyped' /\ MainTyped'
            <4>1. [pc |-> "route", signal |-> "EXIT", d |-> Direction, seen |-> units] \in Routes
                BY <1>p, <3>2, QuantityType DEF Routes, RestTyped
            <4> QED  BY <1>1, <3>2, <4>1, MainTypes DEF MainTyped, Evaluate
        <3> QED  BY <1>1, <3>1, <3>2 DEF Evaluate, MayEnter
    <2> QED  BY <1>1, <1>p, <2>1, TypedNext DEF Evaluate, OrdersTyped, PendingTyped, RestTyped, Waits
<1>2. CASE Route
    <2>1. ThreadTyped' /\ MainTyped'
        <3>1. ASSUME Goes("main", Idle) PROVE ThreadTyped' /\ MainTyped'
            BY <1>2, <3>1, PlainJobs, MainTypes DEF MainTyped, Idle, Route
        <3>2. ASSUME NEW p \in PairOrders, p.id = started + 1, Goes("main", [pc |-> "store", p |-> p, seen |-> m.seen])
              PROVE  ThreadTyped' /\ MainTyped'
            <4>1. m.seen \in [Legs -> Int]
                BY <1>2, <1>p, JobTypes DEF Route
            <4>2. [pc |-> "store", p |-> p, seen |-> m.seen] \in Stores
                BY <3>2, <4>1 DEF Stores
            <4> QED  BY <1>2, <3>2, <4>2, MainTypes DEF MainTyped, Route
        <3>3. ASSUME m.signal = "ENTER", NEW f \in Legs,
                     Goes("main", [pc |-> "store", p |-> Pending(started + 1, "ENTER", m.d, Lot, f), seen |-> m.seen])
              PROVE  ThreadTyped' /\ MainTyped'
            <4>1. m.d \in {1, -1} /\ Lot \in Nat \ {0}
                BY <1>2, <1>p, JobTypes, LiveAssumption DEF Route
            <4> QED  BY <3>2, <3>3, <4>1, <1>p, NewPairOrder DEF RestTyped
        <3>4. ASSUME Quantity # 0, NEW q \in ExitSizes, NEW f \in Legs,
                     Goes("main", [pc |-> "store", p |-> Pending(started + 1, "EXIT", -Direction, q, f), seen |-> m.seen])
              PROVE  ThreadTyped' /\ MainTyped'
            <4>1. -Direction \in {1, -1} /\ q \in Nat \ {0}
                BY <1>p, <3>4, QuantityType DEF RestTyped, ExitSizes
            <4> QED  BY <3>2, <3>4, <4>1, <1>p, NewPairOrder DEF RestTyped
        <3> QED  BY <1>2, <3>1, <3>3, <3>4 DEF Route
    <2> QED  BY <1>2, <1>p, <2>1, TypedNext DEF Route, OrdersTyped, PendingTyped, RestTyped, Waits
<1>3. CASE Store
    <2>1. m.pc = "store" /\ m.p \in PairOrders /\ m.p.id = started + 1 /\ started \in Nat
        BY <1>3, <1>p, JobTypes DEF Store, MainTyped, RestTyped
    <2>2. CASE pending # NoPending
        <3>1. ThreadTyped' /\ MainTyped'
            BY <1>3, <2>2, PlainJobs, MainTypes DEF Store, MainTyped, Idle
        <3> QED  BY <1>3, <1>p, <2>2, <3>1, TypedNext DEF Store, OrdersTyped, PendingTyped, RestTyped, Waits
    <2>3. CASE pending = NoPending
        <3>1. Job("place", m.p) \in MainJobs /\ Job("place", m.p).pc = "place" /\ Job("place", m.p).p = m.p
            BY <2>1 DEF Job, MainJobs
        <3>2. ThreadTyped' /\ thread'["main"] = Job("place", m.p) /\ started' = started + 1
            BY <1>3, <2>3, <3>1, MainTypes DEF Store
        <3>l. LegIds'
            BY <1>3, <2>3, <3>1, <3>2, MainTypes DEF Store
        <3>3. MainTyped'
            BY <2>1, <3>1, <3>2, <3>l DEF MainTyped
        <3>4. PendingTyped'
            BY <1>3, <2>1, <2>3, <3>2 DEF Store, PendingTyped
        <3>5. OrdersTyped'
            BY <1>3, <1>p, <2>1, <2>3, OrderTypes DEF Store, OrdersTyped
        <3> QED  BY <1>3, <1>p, <2>1, <2>3, <3>2, <3>3, <3>4, <3>5, TypedNext DEF Store, RestTyped
    <2> QED  BY <2>2, <2>3
<1>4. CASE PlaceFirst
    <2>1. m.pc = "place" /\ m.p \in PairOrders /\ m.p.id = started
        BY <1>4, <1>p, JobTypes DEF PlaceFirst, MainTyped
    <2>2. CASE Accept(LegOrder(m.p, "first", m.p.first)) /\ Goes("main", Job("placed", m.p)) /\ UNCHANGED pending
        <3>1. Job("placed", m.p) \in MainJobs /\ Job("placed", m.p).pc = "placed" /\ Job("placed", m.p).p = m.p
            BY <2>1 DEF Job, MainJobs
        <3>2. ThreadTyped' /\ thread'["main"] = Job("placed", m.p)
            BY <2>2, <3>1, MainTypes
        <3>l. LegIds'
            BY <1>4, <2>2, <3>1, MainTypes DEF PlaceFirst
        <3>3. MainTyped'
            BY <1>4, <2>1, <3>1, <3>2, <3>l DEF MainTyped, PlaceFirst
        <3>4. m.p.first \in Legs
            BY <2>1 DEF PairOrders
        <3>5. OrdersTyped'
            <4> DEFINE o == LegOrder(m.p, "first", m.p.first)
            <4>1. /\ o.pid \in Nat \ {0} /\ o.role \in {"first", "second", "flatten"} /\ o.leg \in Legs
                  /\ o.sign \in {1, -1} /\ o.qty \in Nat \ {0} /\ o.tif \in {"FOK", "IOC"} /\ o.pid <= started
                  /\ o.role = "flatten" => o.tif = FlattenTif
                BY <2>1, <3>4, <1>p, OrderOfTyped DEF RestTyped
            <4> HIDE DEF o
            <4> QED  BY <1>4, <2>2, <4>1, AcceptTyped DEF PlaceFirst, o
        <3> QED  BY <1>4, <1>p, <2>2, <3>2, <3>3, <3>5, TypedNext DEF PlaceFirst, PendingTyped, RestTyped, Waits
    <2>3. CASE Refused /\ Goes("main", Idle) /\ UNCHANGED orders
        <3>1. ThreadTyped' /\ MainTyped'
            BY <1>4, <2>3, PlainJobs, MainTypes DEF MainTyped, PlaceFirst, Idle
        <3> QED  BY <1>4, <1>p, <2>3, <3>1, TypedNext DEF PlaceFirst, Refused, OrdersTyped, PendingTyped, RestTyped, Waits
    <2> QED  BY <1>4, <2>2, <2>3 DEF PlaceFirst
<1>5. CASE MarkSent
    <2>1. m.p \in PairOrders
        BY <1>5, <1>p, JobTypes DEF MarkSent
    <2>2. PendingTyped'
        <3>1. m.p.first \in Legs
            BY <2>1 DEF PairOrders
        <3>2. Waits => pending.sent \cup {m.p.first} \subseteq Legs
            BY <3>1, <1>p, PendingFacts
        <3> QED  BY <1>5, <1>p, <2>1, <3>2, FlagFacts DEF MarkSent
    <2>3. ThreadTyped' /\ MainTyped'
        BY <1>5, PlainJobs, MainTypes DEF MarkSent, MainTyped, Idle
    <2> QED  BY <1>5, <1>p, <2>2, <2>3, TypedNext DEF MarkSent, OrdersTyped, RestTyped
<1>6. CASE Overdue
    <2>1. Locked' /\ blocks' \subseteq {"disabled", "locked", "cooling"}
        BY <1>6, <1>p DEF Overdue, Locked, RestTyped
    <2>2. pending \in PairOrders /\ pending.id = started
        BY <1>6, <1>p, PendingFacts DEF Overdue, Waits, PendingTyped
    <2>3. ThreadTyped' /\ MainTyped'
        <3>1. Job("expire", pending) \in MainJobs /\ Job("expire", pending).pc = "expire" /\ Job("expire", pending).p = pending
            BY <2>2 DEF Job, MainJobs
        <3>2. CASE Goes("main", Job("expire", pending))
            BY <1>6, <2>1, <2>2, <3>1, <3>2, MainTypes DEF Overdue, MainTyped
        <3>3. CASE Goes("main", [pc |-> "failing"])
            BY <1>6, <2>1, <3>3, PlainJobs, MainTypes DEF Overdue, MainTyped
        <3> QED  BY <1>6, <3>2, <3>3 DEF Overdue
    <2> QED  BY <1>6, <1>p, <2>1, <2>3, TypedNext DEF Overdue, OrdersTyped, PendingTyped, RestTyped, Waits
<1>7. CASE Expire
    <2>1. ThreadTyped' /\ MainTyped'
        BY <1>7, PlainJobs, MainTypes DEF Expire, MainTyped, Idle
    <2>2. PendingTyped'
        BY <1>7, <1>p DEF Expire, PendingTyped, Waits
    <2> QED  BY <1>7, <1>p, <2>1, <2>2, TypedNext DEF Expire, OrdersTyped, RestTyped
<1> QED  BY <1>1, <1>2, <1>3, <1>4, <1>5, <1>6, <1>7 DEF Main

\* A pair order whose flags change is the pair order it was.
LEMMA FlagsTyped ==
    ASSUME PendingTyped, Waits, NEW s \in SUBSET Legs, NEW h \in BOOLEAN, UNCHANGED started,
           \/ pending' = [pending EXCEPT !.sent = s] /\ h = pending.handled
           \/ pending' = [pending EXCEPT !.handled = h] /\ s = pending.sent
    PROVE  /\ PendingTyped' /\ Waits'
           /\ pending'.id = pending.id /\ pending'.sign = pending.sign /\ pending'.qty = pending.qty
           /\ pending'.first = pending.first /\ pending'.target = pending.target
           /\ pending'.sent = s /\ pending'.handled = h
<1>1. pending \in PairOrders /\ pending.id # 0 /\ pending.id = started
    BY PendingFacts DEF PendingTyped
<1>2. /\ pending' \in PairOrders
      /\ pending'.id = pending.id /\ pending'.sign = pending.sign /\ pending'.qty = pending.qty
      /\ pending'.first = pending.first /\ pending'.target = pending.target
      /\ pending'.sent = s /\ pending'.handled = h
    BY <1>1 DEF PairOrders
<1>3. Waits'
    BY <1>1, <1>2 DEF Waits, NoPending
<1> QED  BY <1>1, <1>2, <1>3 DEF PendingTyped

LEMMA TypedCallback == ASSUME Typed, NEW l \in Legs, Callback(l) PROVE Typed'
<1>p. OrdersTyped /\ ThreadTyped /\ PendingTyped /\ MainTyped /\ RestTyped /\ TypeOK
    BY TypedParts DEF Typed
<1>o. Other(l) \in Legs /\ l \in Threads
    BY DEF Other, Legs, Threads
<1>u. UNCHANGED <<units, blocks, started, clean>> /\ (Locked => Locked')
    BY DEF Callback, Defer, PlaceSecond, Locked
<1>r. RestTyped'
    BY <1>p, <1>u DEF RestTyped
<1>1. CASE Defer(l)
    <2>1. OrdersTyped'
        BY <1>1, <1>p, <1>u DEF Defer, OrdersTyped
    <2>2. CASE Ready(l)
        <3>1. pending \in PairOrders /\ Waits /\ pending' = [pending EXCEPT !.sent = pending.sent \cup {Other(l)}]
            BY <1>1, <1>p, <2>2, PendingFacts DEF Defer, Ready, Waits
        <3>2. PendingTyped'
            BY <1>p, <1>o, <1>u, <3>1, FlagsTyped, PendingFacts
        <3>3. Job("second", pending) \in LegJobs /\ Job("second", pending).p.id = started
            BY <1>p, <3>1 DEF Job, LegJobs, PendingTyped
        <3>s. started \in Nat
            BY <1>p DEF RestTyped
        <3>4. ThreadTyped' /\ MainTyped'
            BY <3>s, <1>1, <2>2, <3>3, <1>u, LegTyped DEF Defer
        <3> QED  BY <1>r, <2>1, <3>2, <3>4, TypedNext
    <2>3. CASE ~Ready(l)
        <3>1. ThreadTyped' /\ MainTyped'
            BY <1>1, <2>3, <1>u, PlainJobs, PlainPcs, LegTyped DEF Defer
        <3>2. PendingTyped'
            BY <1>1, <1>p, <1>u, <2>3 DEF Defer, PendingTyped, Waits
        <3> QED  BY <1>r, <2>1, <3>1, <3>2, TypedNext
    <2> QED  BY <2>2, <2>3
<1>2. CASE PlaceSecond(l)
    <2> DEFINE p == thread[l].p
    <2>1. thread[l].pc = "second" /\ p \in PairOrders
        BY <1>2, <1>p, JobTypes DEF PlaceSecond
    <2>2. CASE Accept(LegOrder(p, "second", Other(l))) /\ Goes(l, Idle) /\ UNCHANGED pending
        <3>1. ThreadTyped' /\ MainTyped'
            BY <2>2, <1>u, PlainJobs, PlainPcs, LegTyped
        <3>2. PendingTyped'
            BY <1>p, <1>u, <2>2 DEF PendingTyped, Waits
        <3>3. OrdersTyped'
            <4> DEFINE o == LegOrder(p, "second", Other(l))
            <4>p. p.id <= started
                BY <2>1, <1>p DEF MainTyped, LegIds
            <4>1. /\ o.pid \in Nat \ {0} /\ o.role \in {"first", "second", "flatten"} /\ o.leg \in Legs
                  /\ o.sign \in {1, -1} /\ o.qty \in Nat \ {0} /\ o.tif \in {"FOK", "IOC"} /\ o.pid <= started
                  /\ o.role = "flatten" => o.tif = FlattenTif
                BY <2>1, <4>p, <1>p, <1>o, OrderOfTyped DEF RestTyped
            <4> HIDE DEF o
            <4> QED  BY <1>u, <2>2, <4>1, AcceptTyped DEF o
        <3> QED  BY <1>r, <3>1, <3>2, <3>3, TypedNext
    <2>3. CASE Goes(l, [pc |-> "failing"]) /\ UNCHANGED <<orders, pending>>
        <3>1. ThreadTyped' /\ MainTyped'
            BY <2>3, <1>u, PlainJobs, PlainPcs, LegTyped
        <3> QED  BY <1>p, <1>r, <1>u, <2>3, <3>1, TypedNext DEF OrdersTyped, PendingTyped, Waits
    <2>4. CASE Flag(p, pending.sent \ {Other(l)}) /\ Goes(l, Idle) /\ UNCHANGED orders
        <3>1. ThreadTyped' /\ MainTyped'
            BY <2>4, <1>u, PlainJobs, PlainPcs, LegTyped
        <3>2. Waits => pending.sent \ {Other(l)} \subseteq Legs
            BY <1>p, PendingFacts
        <3>3. PendingTyped'
            BY <1>p, <1>u, <2>1, <2>4, <3>2, FlagFacts
        <3> QED  BY <1>p, <1>r, <1>u, <2>4, <3>1, <3>3, TypedNext DEF OrdersTyped
    <2> QED  BY <1>2, <2>2, <2>3, <2>4 DEF PlaceSecond
<1> QED  BY <1>1, <1>2 DEF Callback

LEMMA TypedFailure == ASSUME Typed, NEW t \in Threads, Failure(t) PROVE Typed'
<1>p. OrdersTyped /\ ThreadTyped /\ PendingTyped /\ MainTyped /\ RestTyped /\ TypeOK
    BY TypedParts DEF Typed
<1>u. UNCHANGED <<units, started, clean>> /\ (Locked => Locked') /\ RestTyped'
    BY <1>p DEF Failure, SecondFails, PlaceFlatten, Locked, RestTyped
<1>t. t \in Legs \/ t = "main"
    BY DEF Threads
<1>g. ASSUME NEW j, Goes(t, j),
             \/ j \in Plain /\ j.pc = "idle"
             \/ /\ j \in LegJobs \cap MainJobs /\ j.p.id = started
                /\ t = "main" => Locked
      PROVE  ThreadTyped' /\ MainTyped'
    <2>1. CASE t \in Legs
        <3>1. j.pc \in {"second", "flatten"} => j.p.id <= started
            BY <1>g, <1>p DEF RestTyped
        <3> QED  BY <2>1, <3>1, <1>g, <1>u, LegTyped
    <2>2. CASE t = "main"
        <3>1. j \in MainJobs => j.pc \notin {"store", "failing"}
            BY DEF MainJobs
        <3>2. ThreadTyped' /\ thread'["main"] = j /\ LegIds'
            BY <2>2, <1>g, <1>u, MainTypes
        <3> QED  BY <2>2, <3>1, <3>2, <1>g, <1>u DEF MainTyped
    <2> QED  BY <1>t, <2>1, <2>2
<1>1. CASE SecondFails(t)
    <2>1. OrdersTyped'
        BY <1>1, <1>p, <1>u DEF SecondFails, OrdersTyped
    <2>2. CASE pending = NoPending \/ pending.handled
        <3>1. ThreadTyped' /\ MainTyped'
            BY <1>1, <2>2, <1>g, PlainJobs DEF SecondFails, Idle
        <3>2. PendingTyped'
            BY <1>1, <2>2, <1>p, <1>u DEF SecondFails, PendingTyped, Waits
        <3> QED  BY <2>1, <3>1, <3>2, <1>u, TypedNext
    <2>3. CASE Waits /\ ~pending.handled
        <3>1. PendingTyped'
            <4>1. pending.sent \in SUBSET Legs /\ pending' = [pending EXCEPT !.handled = TRUE]
                BY <1>1, <2>3, <1>p, PendingFacts DEF SecondFails, Waits
            <4> QED  BY <4>1, <1>p, <1>u, <2>3, FlagsTyped
        <3>2. pending \in PairOrders /\ pending.id = started
            BY <2>3, <1>p, PendingFacts DEF PendingTyped
        <3>3. Job("flatten", pending) \in LegJobs \cap MainJobs /\ Job("flatten", pending).p.id = started
            BY <3>2 DEF Job, LegJobs, MainJobs
        <3>4. t = "main" => Locked
            BY <1>1, <1>p DEF SecondFails, MainTyped
        <3>5. ThreadTyped' /\ MainTyped'
            <4>1. CASE Flattens
                BY <4>1, <1>1, <2>3, <3>3, <3>4, <1>g DEF SecondFails, Waits
            <4>2. CASE ~Flattens
                BY <4>2, <1>1, <2>3, <1>g, PlainJobs DEF SecondFails, Waits, Idle
            <4> QED  BY <4>1, <4>2
        <3> QED  BY <2>1, <3>1, <3>5, <1>u, TypedNext
    <2> QED  BY <2>2, <2>3 DEF Waits
<1>2. CASE PlaceFlatten(t)
    <2> DEFINE p == thread[t].p
    <2>1. p \in PairOrders /\ p.id <= started
        BY <1>2, <1>p, <1>t, JobTypes DEF PlaceFlatten, MainTyped, LegIds, RestTyped
    <2>2. OrdersTyped'
        <3> DEFINE o == FlattenOrder(p)
        <3>1. /\ o.pid \in Nat \ {0} /\ o.role \in {"first", "second", "flatten"} /\ o.leg \in Legs
              /\ o.sign \in {1, -1} /\ o.qty \in Nat \ {0} /\ o.tif \in {"FOK", "IOC"} /\ o.pid <= started
              /\ o.role = "flatten" => o.tif = FlattenTif
            <4>1. FlattenTif \in {"FOK", "IOC"} /\ "stock" \in Legs
                BY LiveAssumption DEF Legs
            <4> QED  BY <2>1, <4>1, OrderOfTyped
        <3>2. CASE Accept(o)
            <4> HIDE DEF o
            <4> QED  BY <3>1, <3>2, <1>u, AcceptTyped
        <3>3. CASE UNCHANGED orders
            BY <3>3, <1>p, <1>u DEF OrdersTyped
        <3> QED  BY <1>2, <3>2, <3>3 DEF PlaceFlatten
    <2>3. ThreadTyped' /\ MainTyped'
        BY <1>2, <1>g, PlainJobs DEF PlaceFlatten, Idle
    <2>4. PendingTyped'
        BY <1>2, <1>p, <1>u DEF PlaceFlatten, PendingTyped, Waits
    <2> QED  BY <2>2, <2>3, <2>4, <1>u, TypedNext
<1> QED  BY <1>1, <1>2 DEF Failure

LEMMA TypedBroker == ASSUME Typed, NEW i \in DOMAIN orders, Broker(i) PROVE Typed'
<1>p. OrdersTyped /\ ThreadTyped /\ PendingTyped /\ MainTyped /\ RestTyped /\ TypeOK
    BY TypedParts DEF Typed
<1>o. orders[i].leg \in Legs /\ orders[i].sign \in {1, -1} /\ orders[i].left \in Nat
    BY <1>p, OrderTypes
<1>u. UNCHANGED <<started, clean>>
    BY DEF Broker, Fill, Report, PartialReport, CancelRest
<1>b. (Locked => Locked') /\ blocks' \subseteq {"disabled", "locked", "cooling"}
    BY <1>p DEF Broker, Fill, Report, PartialReport, CancelRest, RestTyped, Locked
<1>k. orders' = [orders EXCEPT ![i].live = FALSE] => OrdersTyped'
    BY <1>p, <1>u, KillChanges, ChangedTyped
<1>s. ASSUME UNCHANGED thread PROVE ThreadTyped' /\ MainTyped'
    BY <1>s, <1>p, <1>u, <1>b DEF ThreadTyped, MainTyped, LegIds
<1>n. pending' \in {pending, NoPending} => PendingTyped'
    BY <1>p, <1>u DEF PendingTyped, Waits
<1>1. ASSUME NEW k \in 1..orders[i].left, Fill(i, k) PROVE Typed'
    <2>1. OrdersTyped'
        BY <1>1, <1>p, <1>u, FillChanges, ChangedTyped DEF Fill
    <2>2. ThreadTyped' /\ MainTyped'
        BY <1>1, <1>o, <1>u, <1>b, PlainJobs, PlainPcs, LegTyped DEF Fill
    <2>3. units' \in [Legs -> Int]
        <3> DEFINE n == orders[i].sign * k
        <3>1. n \in Int
            BY <1>1, <1>o
        <3>2. units' = [units EXCEPT ![orders[i].leg] = @ + n]
            BY <1>1 DEF Fill
        <3> HIDE DEF n
        <3> QED  BY <1>o, <1>p, <3>1, <3>2, UnitsChange DEF RestTyped
    <2>4. RestTyped'
        BY <2>3, <1>p, <1>u, <1>b DEF RestTyped
    <2>5. PendingTyped'
        BY <1>1, <1>n DEF Fill
    <2> QED  BY <2>1, <2>2, <2>4, <2>5, TypedNext
<1>2. ASSUME NEW outcome, Report(i, outcome) PROVE Typed'
    <2>1. OrdersTyped'
        BY <1>2, <1>k DEF Report
    <2>2. ThreadTyped' /\ MainTyped'
        <3>1. CASE UNCHANGED thread
            BY <3>1, <1>s
        <3>2. CASE Goes(orders[i].leg, [pc |-> "failing"])
            BY <3>2, <1>o, <1>u, <1>b, PlainJobs, PlainPcs, LegTyped
        <3> QED  BY <1>2, <3>1, <3>2 DEF Report
    <2>3. PendingTyped' /\ RestTyped'
        <3>1. pending' \in {pending, NoPending} /\ UNCHANGED units
            BY <1>2 DEF Report
        <3> QED  BY <3>1, <1>p, <1>n, <1>u, <1>b DEF RestTyped
    <2> QED  BY <2>1, <2>2, <2>3, TypedNext
<1>3. CASE PartialReport(i)
    <2>1. OrdersTyped'
        BY <1>3, <1>k, <1>p, <1>u, SameChanges, ChangedTyped DEF PartialReport
    <2>2. ThreadTyped' /\ MainTyped'
        BY <1>3, <1>s DEF PartialReport
    <2> QED  BY <1>3, <2>1, <2>2, <1>p, <1>u, <1>b, <1>n, TypedNext DEF PartialReport, RestTyped
<1>4. CASE CancelRest(i)
    <2>1. OrdersTyped'
        BY <1>4, <1>k DEF CancelRest
    <2>2. ThreadTyped' /\ MainTyped'
        BY <1>4, <1>s DEF CancelRest
    <2> QED  BY <1>4, <2>1, <2>2, <1>p, <1>u, <1>b, <1>n, TypedNext DEF CancelRest, RestTyped
<1> QED  BY <1>1, <1>2, <1>3, <1>4 DEF Broker

LEMMA TypedStep == Typed /\ [Next]_vars => Typed'
<1> SUFFICES ASSUME Typed, [Next]_vars PROVE Typed'
    OBVIOUS
<1>1. CASE CooldownEnds
    <2>1. OrdersTyped /\ ThreadTyped /\ PendingTyped /\ MainTyped /\ RestTyped
        BY TypedParts
    <2>2. Locked' <=> Locked
        BY <1>1 DEF CooldownEnds, Locked
    <2>3. OrdersTyped' /\ ThreadTyped' /\ PendingTyped' /\ RestTyped'
        BY <1>1, <2>1 DEF CooldownEnds, OrdersTyped, ThreadTyped, PendingTyped, RestTyped, Waits
    <2>4. MainTyped'
        BY <1>1, <2>1, <2>2 DEF CooldownEnds, MainTyped, LegIds
    <2> QED  BY <2>3, <2>4, TypedNext
<1>2. CASE UNCHANGED vars
    BY <1>2 DEF vars, Typed, TypeOK, Identities, LegIds, Waits, Locked
<1> QED  BY <1>1, <1>2, TypedMain, TypedCallback, TypedFailure, TypedBroker DEF Next

\* The state of the router has the types the module comments give, whatever the
\* threads and the broker do.
THEOREM TypeCorrect == Spec => []TypeOK
<1>1. Init => Typed
    BY InitInv DEF Inv, Typed
<1>2. Typed => TypeOK
    BY DEF Typed
<1> QED  BY <1>1, <1>2, TypedStep, PTL DEF Spec

-----------------------------------------------------------------------------
\* What a step does to the orders of the pair order under way.

Roles == {"first", "second", "flatten"}

\* Orders that fill or end keep their places in the plan.
LEMMA ChangedOrders ==
    ASSUME Changed, UNCHANGED started
    PROVE  /\ \A i \in DOMAIN orders, r \in Roles : Mine(i, r)' <=> Mine(i, r)
           /\ \A r \in Roles : Has(r)' <=> Has(r)
           /\ FirstDone /\ TypeOK => FirstDone'
           /\ OnceEach => OnceEach'
           /\ TypeOK /\ AfterFirst => AfterFirst'
           /\ \A s \in {1, -1}, q \in Nat \ {0}, f \in Legs :
                 (\A i \in DOMAIN orders : orders[i].pid = started =>
                      /\ orders[i].qty = q
                      /\ orders[i].leg = IF orders[i].role = "second" THEN Other(f) ELSE f
                      /\ orders[i].sign = IF orders[i].role = "flatten" THEN -s ELSE s)
                 => (\A i \in DOMAIN orders' : orders'[i].pid = started' =>
                      /\ orders'[i].qty = q
                      /\ orders'[i].leg = IF orders'[i].role = "second" THEN Other(f) ELSE f
                      /\ orders'[i].sign = IF orders'[i].role = "flatten" THEN -s ELSE s)
<1>1. \A i \in DOMAIN orders, r \in Roles : Mine(i, r)' <=> Mine(i, r)
    BY DEF Changed, Mine
<1>2. \A r \in Roles : Has(r)' <=> Has(r)
    BY <1>1 DEF Changed, Has
<1>z. TypeOK => \A i \in DOMAIN orders : orders[i].left = 0 => orders'[i].left = 0
    <2> SUFFICES ASSUME TypeOK, NEW i \in DOMAIN orders, orders[i].left = 0 PROVE orders'[i].left = 0
        OBVIOUS
    <2>1. orders'[i] \in Orders /\ orders'[i].left <= orders[i].left
        BY DEF Changed
    <2> QED  BY <2>1 DEF Orders
<1>3. FirstDone /\ TypeOK => FirstDone'
    BY <1>z DEF Changed, FirstDone, Mine
<1>4. OnceEach => OnceEach'
    BY DEF Changed, OnceEach
<1>5. TypeOK /\ AfterFirst => AfterFirst'
    <2> SUFFICES ASSUME TypeOK, AfterFirst, NEW j \in DOMAIN orders', orders'[j].role # "first"
                 PROVE \E i \in 1..(j - 1) : orders'[i].pid = orders'[j].pid /\ orders'[i].role = "first" /\ orders'[i].left = 0
        BY DEF AfterFirst
    <2>1. j \in DOMAIN orders /\ orders[j].role # "first" /\ orders'[j].pid = orders[j].pid
        BY DEF Changed
    <2>2. PICK i \in 1..(j - 1) : orders[i].pid = orders[j].pid /\ orders[i].role = "first" /\ orders[i].left = 0
        BY <2>1 DEF AfterFirst
    <2>3. i \in DOMAIN orders
        BY <2>1, <2>2, OrderTypes
    <2> QED  BY <1>z, <2>1, <2>2, <2>3 DEF Changed
<1>6. ASSUME NEW s \in {1, -1}, NEW q \in Nat \ {0}, NEW f \in Legs,
             \A i \in DOMAIN orders : orders[i].pid = started =>
                      /\ orders[i].qty = q
                      /\ orders[i].leg = IF orders[i].role = "second" THEN Other(f) ELSE f
                      /\ orders[i].sign = IF orders[i].role = "flatten" THEN -s ELSE s
      PROVE  \A i \in DOMAIN orders' : orders'[i].pid = started' =>
                      /\ orders'[i].qty = q
                      /\ orders'[i].leg = IF orders'[i].role = "second" THEN Other(f) ELSE f
                      /\ orders'[i].sign = IF orders'[i].role = "flatten" THEN -s ELSE s
    BY <1>6 DEF Changed
<1> QED  BY <1>1, <1>2, <1>3, <1>4, <1>5, <1>6

\* A new order of the pair order, the first of its role.
LEMMA AcceptedOrder ==
    ASSUME Typed, OnceEach, AfterFirst, NEW o, Accept(o), UNCHANGED started,
           o.pid = started, o.role \in Roles, ~Has(o.role), o.role # "first" => FirstDone,
           o.leg \in Legs, o.sign \in {1, -1}, o.qty \in Nat \ {0}, o.tif \in {"FOK", "IOC"},
           started \in Nat \ {0}
    PROVE  \E n \in Nat :
           /\ DOMAIN orders' = 1..n /\ n \notin DOMAIN orders
           /\ \A i \in DOMAIN orders : i \in DOMAIN orders' /\ orders'[i] = orders[i]
           /\ \A i \in DOMAIN orders' : i = n \/ i \in DOMAIN orders
           /\ orders'[n].pid = started /\ orders'[n].role = o.role /\ orders'[n].leg = o.leg
           /\ orders'[n].sign = o.sign /\ orders'[n].qty = o.qty /\ orders'[n].left = o.qty /\ orders'[n].live
           /\ \A i \in DOMAIN orders, r \in Roles : Mine(i, r)' <=> Mine(i, r)
           /\ \A r \in Roles : Mine(n, r)' <=> r = o.role
           /\ \A r \in Roles : Has(r)' <=> (Has(r) \/ r = o.role)
           /\ FirstDone => FirstDone'
           /\ OnceEach' /\ AfterFirst'
<1>t. DOMAIN orders = 1..Len(orders) /\ Len(orders) \in Nat
    BY OrderTypes DEF Typed
<1>0. PICK n \in Nat : n = Len(orders) + 1
    BY <1>t
<1>1. /\ DOMAIN orders' = 1..n /\ n \notin DOMAIN orders
      /\ \A i \in DOMAIN orders : i < n /\ i \in DOMAIN orders' /\ orders'[i] = orders[i]
      /\ \A i \in DOMAIN orders' : i = n \/ i \in DOMAIN orders
      /\ orders'[n].pid = started /\ orders'[n].role = o.role /\ orders'[n].leg = o.leg
      /\ orders'[n].sign = o.sign /\ orders'[n].qty = o.qty /\ orders'[n].left = o.qty /\ orders'[n].live
    BY <1>0, AcceptAdds DEF Typed, Roles
<1>2. \A i \in DOMAIN orders, r \in Roles : Mine(i, r)' <=> Mine(i, r)
    BY <1>1 DEF Mine
<1>3. \A r \in Roles : Mine(n, r)' <=> r = o.role
    BY <1>1 DEF Mine
<1>n. n \in DOMAIN orders'
    BY <1>0, <1>1, <1>t
<1>4. \A r \in Roles : Has(r)' <=> (Has(r) \/ r = o.role)
    <2> SUFFICES ASSUME NEW r \in Roles PROVE Has(r)' <=> (Has(r) \/ r = o.role)
        OBVIOUS
    <2>1. Has(r)' <=> \E i \in DOMAIN orders' : Mine(i, r)'
        BY DEF Has
    <2>2. Has(r) <=> \E i \in DOMAIN orders : Mine(i, r)
        BY DEF Has
    <2> QED  BY <2>1, <2>2, <1>1, <1>2, <1>3, <1>n
<1>5. FirstDone => FirstDone'
    BY <1>1, <1>2 DEF FirstDone, Roles
<1>6. OnceEach'
    <2>1. ASSUME NEW i \in DOMAIN orders, orders[i].pid = started, orders[i].role = o.role PROVE FALSE
        BY <2>1 DEF Has, Mine
    <2> SUFFICES ASSUME NEW i \in DOMAIN orders', NEW j \in DOMAIN orders',
                        orders'[i].pid = orders'[j].pid, orders'[i].role = orders'[j].role
                 PROVE i = j
        BY DEF OnceEach
    <2> QED  BY <1>1, <2>1 DEF OnceEach
<1>7. AfterFirst'
    <2> SUFFICES ASSUME NEW j \in DOMAIN orders', orders'[j].role # "first"
                 PROVE \E i \in 1..(j - 1) : orders'[i].pid = orders'[j].pid /\ orders'[i].role = "first" /\ orders'[i].left = 0
        BY DEF AfterFirst
    <2>1. CASE j \in DOMAIN orders
        <3>1. PICK i \in 1..(j - 1) : orders[i].pid = orders[j].pid /\ orders[i].role = "first" /\ orders[i].left = 0
            BY <2>1, <1>1 DEF AfterFirst
        <3>2. i \in DOMAIN orders
            BY <2>1, <3>1, <1>t
        <3> QED  BY <1>1, <2>1, <3>1, <3>2
    <2>2. CASE j = n
        <3>1. PICK i \in DOMAIN orders : Mine(i, "first") /\ orders[i].left = 0
            BY <2>2, <1>1 DEF FirstDone
        <3>2. i \in 1..(j - 1) /\ orders'[i] = orders[i]
            BY <2>2, <3>1, <1>0, <1>1, <1>t
        <3> QED  BY <2>2, <1>1, <3>1, <3>2 DEF Mine
    <2> QED  BY <1>1, <2>1, <2>2
<1> QED  BY <1>1, <1>2, <1>3, <1>4, <1>5, <1>6, <1>7

-----------------------------------------------------------------------------
\* One action at a time, with clean.

Good == Typed /\ Clean

LEMMA GoodFacts ==
    ASSUME Good
    PROVE  /\ Typed /\ TypeOK /\ PendingTyped /\ Clean
           /\ started \in Nat /\ Legs \subseteq Threads /\ "main" \in Threads
           /\ \A i, j \in DOMAIN orders, r \in Roles : Mine(i, r) /\ Mine(j, r) => i = j
           /\ Has("second") \/ Has("flatten") => FirstDone
           /\ FirstDone => Has("first")
<1>1. Typed /\ TypeOK /\ PendingTyped /\ Clean /\ started \in Nat
    BY TypedParts DEF Good, Typed, RestTyped
<1>2. \A i, j \in DOMAIN orders, r \in Roles : Mine(i, r) /\ Mine(j, r) => i = j
    BY <1>1 DEF Mine, Clean, OnceEach
<1>3. Has("second") \/ Has("flatten") => FirstDone
    <2> SUFFICES ASSUME NEW r \in {"second", "flatten"}, Has(r) PROVE FirstDone
        OBVIOUS
    <2>1. PICK j \in DOMAIN orders : Mine(j, r)
        BY DEF Has
    <2>2. PICK i \in 1..(j - 1) : orders[i].pid = orders[j].pid /\ orders[i].role = "first" /\ orders[i].left = 0
        BY <1>1, <2>1 DEF Clean, AfterFirst, Mine
    <2>3. i \in DOMAIN orders
        BY <1>1, <2>1, <2>2, OrderTypes
    <2> QED  BY <2>1, <2>2, <2>3 DEF FirstDone, Mine
<1>4. FirstDone => Has("first")
    BY DEF FirstDone, Has
<1> QED  BY <1>1, <1>2, <1>3, <1>4 DEF Threads

LEMMA LegFacts ==
    /\ \A l \in Legs : Other(l) \in Legs /\ Other(l) # l /\ Other(Other(l)) = l
    /\ \A l, k \in Legs : k = l \/ k = Other(l)
BY DEF Legs, Other

\* A step that gives no thread new work, sends and fills nothing, and leaves
\* the pair order as it is.
LEMMA Frame ==
    ASSUME Good, Typed', UNCHANGED <<units, pending, started>>, Changed,
           \A j \in DOMAIN orders : orders'[j].left = orders[j].left,
           Locked => Locked',
           \A t \in Threads : Working(t)' => thread'[t] = thread[t],
           \A t \in Threads : thread'[t].pc = "failing" => thread[t].pc = "failing",
           \A l \in Legs : thread[l] = Idle => thread'[l] = Idle,
           thread["main"].pc \in {"place", "placed"} => thread'["main"] = thread["main"],
           thread'["main"].pc = "store" => thread'["main"].p.sent = {} /\ ~thread'["main"].p.handled
    PROVE  Clean'
<1>g. Typed /\ TypeOK /\ PendingTyped /\ Clean /\ Legs \subseteq Threads /\ "main" \in Threads
    BY GoodFacts
<1>w. /\ Waits' <=> Waits
      /\ \A l \in Legs : Short(l)' = Short(l)
      /\ Second' = Second
    BY DEF Waits, Short, ShortAt, Second
<1>m. /\ \A i \in DOMAIN orders, r \in Roles : Mine(i, r)' <=> Mine(i, r)
      /\ \A r \in Roles : Has(r)' <=> Has(r)
      /\ FirstDone => FirstDone'
    BY <1>g, ChangedOrders
<1>h. /\ Has("first")' <=> Has("first")
      /\ Has("second")' <=> Has("second")
      /\ Has("flatten")' <=> Has("flatten")
    BY <1>m DEF Roles
<1>f. FirstDone' <=> FirstDone
    BY <1>m DEF FirstDone, Changed, Roles
<1>l. \A l \in Legs : thread'[l].pc \in {"second", "flatten"} => thread'[l] = thread[l]
    BY <1>g DEF Working
<1>c. Current'
    BY <1>g, <1>l DEF Clean, Current, Changed
<1>1. OnePlan'
    <2>1. PICK s \in {1, -1}, q \in Nat \ {0}, f \in Legs : Plan(s, q, f)
        BY <1>g DEF Clean, OnePlan
    <2>2. Waits' => pending'.sign = s /\ pending'.qty = q /\ pending'.first = f
        BY <2>1, <1>w DEF Plan
    <2>3. \A t \in Threads : Working(t)' => thread'[t].p.sign = s /\ thread'[t].p.qty = q /\ thread'[t].p.first = f
        BY <2>1 DEF Plan, Working
    <2>4. Plan(s, q, f)'
        BY <2>1, <2>2, <2>3, ChangedOrders DEF Plan
    <2> QED  BY <2>4 DEF OnePlan
<1>2. Placing'
    <2>1. ASSUME thread'["main"].pc = "place"
          PROVE  /\ Settled' /\ pending' = thread'["main"].p
                 /\ pending'.sent = {} /\ ~pending'.handled
                 /\ \A i \in DOMAIN orders' : orders'[i].pid # started'
        <3>1. thread'["main"] = thread["main"]
            BY <2>1, <1>g DEF Working
        <3>2. /\ Settled /\ pending = thread["main"].p /\ pending.sent = {} /\ ~pending.handled
              /\ \A i \in DOMAIN orders : orders[i].pid # started
            BY <2>1, <3>1, <1>g DEF Clean, Placing
        <3>3. Settled'
            BY <3>2 DEF Settled, Changed
        <3> QED  BY <3>1, <3>2, <3>3 DEF Changed
    <2> QED  BY <2>1 DEF Placing
<1>3. OnceEach' /\ AfterFirst'
    BY <1>g, ChangedOrders DEF Clean
<1>4. SecondJobs'
    BY <1>g, <1>l, <1>f, <1>h, <1>w DEF Clean, SecondJobs
<1>5. FlattenJobs'
    <2>1. \A t \in Threads : thread'[t].pc = "flatten" => thread'[t] = thread[t]
        BY DEF Working
    <2> QED  BY <2>1, <1>g, <1>f, <1>h, <1>w DEF Clean, FlattenJobs
<1>6. FailureAfterFirst'
    BY <1>g, <1>f, <1>w DEF Clean, FailureAfterFirst
<1>7. Flags'
    <2>1. thread["main"].pc = "place" => thread'["main"].pc = "place"
        OBVIOUS
    <2> QED  BY <2>1, <1>g, <1>h, <1>w DEF Clean, Flags
<1>8. Amounts'
    <2> SUFFICES ASSUME Waits' PROVE
            /\ ~Has("first")' => Short(pending.first)' = pending'.qty
            /\ \A i \in DOMAIN orders' : Mine(i, "first")' =>
                  /\ ~Has("flatten")' => Short(pending.first)' = orders'[i].left
                  /\ \A j \in DOMAIN orders' : Mine(j, "flatten")' =>
                        Short(pending.first)' = orders'[i].left + orders'[j].qty - orders'[j].left
            /\ ~Has("second")' => Short(Second)' = pending'.qty
            /\ \A i \in DOMAIN orders' : Mine(i, "second")' => Short(Second)' = orders'[i].left
            /\ \E l \in Legs : Short(l)' # 0
        BY DEF Amounts
    <2>1. Waits /\ pending.first \in Legs /\ Second \in Legs
        BY <1>w, <1>g, PendingFacts, LegFacts DEF Second
    <2>2. Short(pending.first)' = Short(pending.first) /\ Short(Second)' = Short(Second)
        BY <2>1 DEF Short, ShortAt, Second
    <2> HIDE DEF Amounts
    <2>3. /\ ~Has("first") => Short(pending.first) = pending.qty
          /\ \A i \in DOMAIN orders : Mine(i, "first") =>
                /\ ~Has("flatten") => Short(pending.first) = orders[i].left
                /\ \A j \in DOMAIN orders : Mine(j, "flatten") =>
                        Short(pending.first) = orders[i].left + orders[j].qty - orders[j].left
          /\ ~Has("second") => Short(Second) = pending.qty
          /\ \A i \in DOMAIN orders : Mine(i, "second") => Short(Second) = orders[i].left
          /\ \E l \in Legs : Short(l) # 0
        BY <2>1, <1>g DEF Clean, Amounts
    <2>4. DOMAIN orders' = DOMAIN orders /\ \A i \in DOMAIN orders : orders'[i].left = orders[i].left /\ orders'[i].qty = orders[i].qty
        BY DEF Changed
    <2>5. \A i \in DOMAIN orders : /\ Mine(i, "first")' <=> Mine(i, "first")
                                   /\ Mine(i, "second")' <=> Mine(i, "second")
                                   /\ Mine(i, "flatten")' <=> Mine(i, "flatten")
        BY <1>m DEF Roles
    <2> QED  BY <2>2, <2>3, <2>4, <2>5, <1>h, <1>w
<1>9. SecondIsOff'
    <2>1. Failed' => Failed
        BY <1>g DEF Failed
    <2>2. \A i \in DOMAIN orders : /\ Mine(i, "second")' <=> Mine(i, "second")
                                   /\ (orders'[i].live => orders[i].live) /\ orders'[i].qty = orders[i].qty
        BY <1>m DEF Roles, Changed
    <2>3. DOMAIN orders' = DOMAIN orders
        BY DEF Changed
    <2>4. \A l \in Legs : thread'[l].pc = "second" => thread[l].pc = "second"
        BY <1>l
    <2> QED  BY <2>1, <2>2, <2>3, <2>4, <1>g, <1>w DEF Clean, SecondIsOff
<1>10. FlattenTif = "IOC" => Unlocked'
    <2>1. NoneLive => NoneLive'
        BY DEF NoneLive, Changed
    <2>2. Balanced' <=> Balanced
        BY DEF Balanced
    <2> QED  BY <2>1, <2>2, <1>g, <1>l, <1>w DEF Clean, Unlocked
<1> QED  BY <1>c, <1>1, <1>2, <1>3, <1>4, <1>5, <1>6, <1>7, <1>8, <1>9, <1>10 DEF Clean

\* A step after which no pair order is pending.
LEMMA Frees ==
    ASSUME Good, ~Waits', UNCHANGED started, Changed,
           \A t \in Threads : Working(t)' => thread'[t] = thread[t],
           thread'["main"].pc # "place",
           thread'["main"].pc = "store" => thread'["main"].p.sent = {} /\ ~thread'["main"].p.handled,
           FlattenTif = "IOC" => Unlocked'
    PROVE  Clean'
<1>g. Typed /\ TypeOK /\ Clean /\ Legs \subseteq Threads /\ "main" \in Threads
    BY GoodFacts
<1>m. /\ \A r \in Roles : Has(r)' <=> Has(r)
      /\ FirstDone => FirstDone'
    BY <1>g, ChangedOrders
<1>l. \A t \in Threads : thread'[t].pc \in {"second", "flatten"} => thread'[t] = thread[t]
    BY DEF Working
<1>1. Current'
    BY <1>g, <1>l DEF Clean, Current, Changed
<1>2. OnePlan'
    <2>1. PICK s \in {1, -1}, q \in Nat \ {0}, f \in Legs : Plan(s, q, f)
        BY <1>g DEF Clean, OnePlan
    <2>2. \A t \in Threads : Working(t)' => thread'[t].p.sign = s /\ thread'[t].p.qty = q /\ thread'[t].p.first = f
        BY <2>1 DEF Plan, Working
    <2>3. Plan(s, q, f)'
        BY <2>1, <2>2, ChangedOrders DEF Plan
    <2> QED  BY <2>3 DEF OnePlan
<1>3. Placing'
    BY DEF Placing
<1>4. OnceEach' /\ AfterFirst'
    BY <1>g, ChangedOrders DEF Clean
<1>5. SecondJobs'
    BY <1>g, <1>l, <1>m DEF Clean, SecondJobs, Roles
<1>6. FlattenJobs'
    BY <1>g, <1>l, <1>m DEF Clean, FlattenJobs, Roles
<1>7. FailureAfterFirst' /\ Flags' /\ Amounts' /\ SecondIsOff'
    BY DEF FailureAfterFirst, Flags, Amounts, SecondIsOff
<1> QED  BY <1>1, <1>2, <1>3, <1>4, <1>5, <1>6, <1>7 DEF Clean

\* The main thread's step and what it leaves alone.
LEMMA MainGoes ==
    ASSUME TypeOK, NEW j, Goes("main", j)
    PROVE  /\ thread'["main"] = j
           /\ \A l \in Legs : thread'[l] = thread[l]
           /\ \A t \in Threads : t = "main" \/ t \in Legs
BY GoesOn DEF Threads, Legs

LEMMA CleanEvaluate == ASSUME Good, Typed', Evaluate PROVE Clean'
<1>1. TypeOK
    BY GoodFacts
<1>2. /\ thread'["main"].pc = "route"
      /\ \A l \in Legs : thread'[l] = thread[l]
      /\ \A t \in Threads : t = "main" \/ t \in Legs
    <2>1. ASSUME NEW s, NEW d, Goes("main", [pc |-> "route", signal |-> s, d |-> d, seen |-> units])
          PROVE  <1>2!1 /\ <1>2!2 /\ <1>2!3
        BY <1>1, <2>1, MainGoes
    <2> QED  BY <2>1 DEF Evaluate
<1>3. Changed /\ (\A j \in DOMAIN orders : orders'[j].left = orders[j].left) /\ (Locked => Locked')
    BY <1>1, SameChanges DEF Evaluate, Locked
<1>4. thread["main"].pc = "idle"
    BY DEF Evaluate, Idle
<1> QED  BY <1>2, <1>3, <1>4, Frame DEF Evaluate, Working

LEMMA CleanRoute == ASSUME Good, Typed', Route PROVE Clean'
<1>1. TypeOK /\ units \in [Legs -> Int] /\ started \in Nat
    BY GoodFacts DEF TypeOK
<1>2. /\ thread'["main"].pc \in {"idle", "store"}
      /\ thread'["main"].pc = "store" => thread'["main"].p.sent = {} /\ ~thread'["main"].p.handled
      /\ \A l \in Legs : thread'[l] = thread[l]
      /\ \A t \in Threads : t = "main" \/ t \in Legs
    <2>1. CASE Goes("main", Idle)
        BY <1>1, <2>1, MainGoes DEF Idle
    <2>2. ASSUME NEW p, p.sent = {}, ~p.handled, Goes("main", [pc |-> "store", p |-> p, seen |-> thread["main"].seen])
          PROVE  <1>2!1 /\ <1>2!2 /\ <1>2!3 /\ <1>2!4
        BY <1>1, <2>2, MainGoes
    <2>3. ASSUME NEW f \in Legs,
                 Goes("main", [pc |-> "store", p |-> Pending(started + 1, "ENTER", thread["main"].d, Lot, f), seen |-> thread["main"].seen])
          PROVE  <1>2!1 /\ <1>2!2 /\ <1>2!3 /\ <1>2!4
        BY <2>2, <2>3 DEF Pending
    <2>4. ASSUME NEW q \in ExitSizes, NEW f \in Legs,
                 Goes("main", [pc |-> "store", p |-> Pending(started + 1, "EXIT", -Direction, q, f), seen |-> thread["main"].seen])
          PROVE  <1>2!1 /\ <1>2!2 /\ <1>2!3 /\ <1>2!4
        BY <2>2, <2>4 DEF Pending
    <2> QED  BY <2>1, <2>3, <2>4 DEF Route
<1>3. Changed /\ (\A j \in DOMAIN orders : orders'[j].left = orders[j].left) /\ (Locked => Locked')
    BY <1>1, SameChanges DEF Route, Locked
<1>4. thread["main"].pc = "route"
    BY DEF Route
<1> QED  BY <1>2, <1>3, <1>4, Frame DEF Route, Working

\* The new pair order: nothing of an earlier one is under way, and its targets
\* are its size away from the position.
LEMMA CleanStore == ASSUME Good, Typed', Store, clean' PROVE Clean'
<1> DEFINE m == thread["main"]
<1>g. /\ Typed /\ TypeOK /\ Clean /\ started \in Nat /\ Legs \subseteq Threads /\ "main" \in Threads
      /\ orders \in Seq(Orders) /\ units \in [Legs -> Int]
      /\ m.pc = "store" /\ m.p \in PairOrders /\ m.p.id = started + 1
      /\ m.p.sent = {} /\ ~m.p.handled
      /\ \A i \in DOMAIN orders : orders[i].pid <= started /\ orders[i].pid \in Nat
    BY GoodFacts, JobTypes, OrderTypes DEF Store, Typed, TypeOK, Identities, Clean, Placing
<1>1. CASE pending # NoPending
    <2>1. /\ thread'["main"] = Idle
          /\ \A l \in Legs : thread'[l] = thread[l]
          /\ \A t \in Threads : t = "main" \/ t \in Legs
        BY <1>1, <1>g, MainGoes DEF Store
    <2>2. Changed /\ (\A j \in DOMAIN orders : orders'[j].left = orders[j].left) /\ (Locked => Locked')
        BY <1>g, SameChanges DEF Store, Locked
    <2> QED  BY <1>1, <1>g, <2>1, <2>2, Frame DEF Store, Working, Idle
<1>2. CASE pending = NoPending
    <2>1. /\ thread'["main"] = Job("place", m.p)
          /\ \A l \in Legs : thread'[l] = thread[l]
          /\ \A t \in Threads : t = "main" \/ t \in Legs
        BY <1>2, <1>g, MainGoes DEF Store
    <2>2. /\ pending' = m.p /\ started' = started + 1 /\ UNCHANGED <<units, blocks, orders>>
          /\ Fresh(m) /\ Settled
        BY <1>2, <1>g DEF Store
    <2>3. Waits'
        <3>1. m.p.id # 0
            BY <1>g
        <3> QED  BY <2>2, <3>1 DEF Waits, NoPending
    <2>4. /\ thread'["main"].pc = "place" /\ thread'["main"].p = m.p
          /\ \A l \in Legs : thread'[l] = Idle /\ thread'[l].pc = "idle"
        BY <2>1, <2>2 DEF Job, Settled, Idle
    <2>5. /\ \A i \in DOMAIN orders' : orders'[i].pid # started' /\ ~orders'[i].live
          /\ ~Has("first")' /\ ~Has("second")' /\ ~Has("flatten")'
        <3>1. \A i \in DOMAIN orders' : orders'[i].pid # started' /\ ~orders'[i].live
            BY <1>g, <2>2 DEF Settled
        <3> QED  BY <3>1 DEF Has, Mine
    <2>6. m.p.first \in Legs /\ m.p.sign \in {1, -1} /\ m.p.qty \in Nat \ {0} /\ m.p.target \in [Legs -> Int]
        BY <1>g DEF PairOrders
    <2>7. \A l \in Legs : Short(l)' = m.p.qty
        <3> SUFFICES ASSUME NEW l \in Legs PROVE Short(l)' = m.p.qty
            OBVIOUS
        <3>1. m.p.target[l] = units[l] + m.p.sign * m.p.qty
            BY <2>2 DEF Fresh
        <3>2. Short(l)' = IF m.p.sign = 1 THEN m.p.target[l] - units[l] ELSE units[l] - m.p.target[l]
            BY <2>2 DEF Short, ShortAt
        <3>3. units[l] \in Int
            BY <1>g
        <3>4. CASE m.p.sign = 1
            BY <3>1, <3>2, <3>3, <3>4, <2>6
        <3>5. CASE m.p.sign = -1
            BY <3>1, <3>2, <3>3, <3>5, <2>6
        <3> QED  BY <3>4, <3>5, <2>6
    <2>c. Current' /\ Placing'
        <3>1. Settled'
            BY <2>4, <2>5 DEF Settled
        <3> QED  BY <1>g, <2>2, <2>4, <2>5, <3>1 DEF Current, Placing
    <2>p. OnePlan'
        <3>1. PICK s \in {1, -1}, q \in Nat \ {0}, f \in Legs : m.p.sign = s /\ m.p.qty = q /\ m.p.first = f
            BY <2>6
        <3>2. Plan(s, q, f)'
            BY <3>1, <2>1, <2>2, <2>4, <2>5 DEF Plan, Working
        <3> QED  BY <3>2 DEF OnePlan
    <2>o. OnceEach' /\ AfterFirst'
        BY <1>g, <2>2 DEF Clean, OnceEach, AfterFirst
    <2>j. SecondJobs' /\ FlattenJobs'
        BY <2>1, <2>4 DEF SecondJobs, FlattenJobs
    <2>f. FailureAfterFirst' /\ Flags' /\ SecondIsOff'
        BY <1>g, <2>1, <2>2, <2>4, <2>5 DEF FailureAfterFirst, Flags, SecondIsOff, Failed
    <2>a. Amounts'
        <3>1. pending'.first \in Legs /\ Second' \in Legs
            BY <2>2, <2>6, LegFacts DEF Second
        <3>2. Short(pending.first)' = m.p.qty /\ Short(Second)' = m.p.qty
            BY <2>7, <3>1 DEF Short, ShortAt, Second
        <3>3. \A i \in DOMAIN orders' : ~Mine(i, "first")' /\ ~Mine(i, "second")'
            BY <2>5 DEF Mine
        <3>4. \E l \in Legs : Short(l)' # 0
            BY <2>6, <2>7
        <3> QED  BY <2>2, <2>5, <3>2, <3>3, <3>4 DEF Amounts
    <2>u. FlattenTif = "IOC" => Unlocked'
        <3> SUFFICES ASSUME FlattenTif = "IOC", ~Locked' PROVE pending'.target["stock"] = pending'.target["future"]
            BY <2>3 DEF Unlocked
        <3>1. Balanced
            BY <1>2, <1>g, <2>2 DEF Clean, Unlocked, Locked, Waits
        <3> QED  BY <2>2, <3>1 DEF Balanced, Fresh, Legs
    <2> QED  BY <2>c, <2>p, <2>o, <2>j, <2>f, <2>a, <2>u DEF Clean
<1> QED  BY <1>1, <1>2

\* A step that only changes the flags of the pending pair order, gives threads
\* work for that pair order, and may block entries.
KeepsPending ==
    /\ Waits /\ Waits'
    /\ pending'.sign = pending.sign /\ pending'.qty = pending.qty
    /\ pending'.first = pending.first /\ pending'.target = pending.target

LEMMA FlagStep ==
    ASSUME Good, UNCHANGED <<units, orders, started>>, KeepsPending, Locked => Locked',
           \A t \in Threads : Working(t)' =>
               thread'[t] = thread[t] \/ (thread'[t].p = pending /\ thread'[t].pc # "place"),
           thread["main"].pc # "place", thread'["main"].pc # "place",
           thread'["main"].pc = "store" => thread'["main"].p.sent = {} /\ ~thread'["main"].p.handled
    PROVE  /\ \A r \in Roles : Has(r)' <=> Has(r)
           /\ FirstDone' <=> FirstDone
           /\ Second' = Second
           /\ \A i \in DOMAIN orders, r \in Roles : Mine(i, r)' <=> Mine(i, r)
           /\ Current' /\ OnePlan' /\ Placing' /\ OnceEach' /\ AfterFirst' /\ Amounts'
           /\ FlattenTif = "IOC" => Unlocked'
<1>g. /\ Typed /\ TypeOK /\ PendingTyped /\ Clean /\ Legs \subseteq Threads /\ Changed
      /\ pending \in PairOrders /\ pending.first \in Legs /\ Second \in Legs /\ pending.id = started
    BY GoodFacts, SameChanges, PendingFacts, LegFacts DEF KeepsPending, Second, Typed, Identities
<1>1. /\ \A r \in Roles : Has(r)' <=> Has(r)
      /\ \A i \in DOMAIN orders, r \in Roles : Mine(i, r)' <=> Mine(i, r)
      /\ FirstDone' <=> FirstDone
    BY DEF Has, Mine, FirstDone
<1>2. Second' = Second
    BY DEF Second, KeepsPending
<1>3. Current'
    BY <1>g DEF Clean, Current, Working
<1>4. OnePlan'
    <2>1. PICK s \in {1, -1}, q \in Nat \ {0}, f \in Legs : Plan(s, q, f)
        BY <1>g DEF Clean, OnePlan
    <2>2. pending.sign = s /\ pending.qty = q /\ pending.first = f
        BY <2>1 DEF Plan, KeepsPending
    <2>3. \A t \in Threads : Working(t)' => thread'[t].p.sign = s /\ thread'[t].p.qty = q /\ thread'[t].p.first = f
        BY <2>1, <2>2 DEF Plan, Working
    <2>4. Plan(s, q, f)'
        BY <1>g, <2>1, <2>2, <2>3, ChangedOrders DEF Plan, KeepsPending
    <2> QED  BY <2>4 DEF OnePlan
<1>5. Placing'
    BY DEF Placing
<1>6. OnceEach' /\ AfterFirst'
    BY <1>g DEF Clean, OnceEach, AfterFirst
<1>7. Amounts'
    <2>1. \A l \in Legs : Short(l)' = Short(l)
        BY DEF Short, ShortAt, KeepsPending
    <2>2. Short(pending.first)' = Short(pending.first) /\ Short(Second)' = Short(Second)
        BY <1>2 DEF Short, ShortAt, KeepsPending
    <2>3. /\ Has("first")' <=> Has("first")
          /\ Has("second")' <=> Has("second")
          /\ Has("flatten")' <=> Has("flatten")
        BY <1>1 DEF Roles
    <2>4. \A i \in DOMAIN orders : /\ Mine(i, "first")' <=> Mine(i, "first")
                                   /\ Mine(i, "second")' <=> Mine(i, "second")
                                   /\ Mine(i, "flatten")' <=> Mine(i, "flatten")
        BY <1>1 DEF Roles
    <2>5. Amounts
        BY <1>g DEF Clean
    <2> QED  BY <2>1, <2>2, <2>3, <2>4, <2>5 DEF Amounts, KeepsPending
<1>8. FlattenTif = "IOC" => Unlocked'
    BY <1>g DEF Clean, Unlocked, KeepsPending
<1> QED  BY <1>1, <1>2, <1>3, <1>4, <1>5, <1>6, <1>7, <1>8

LEMMA CleanMarkSent == ASSUME Good, Typed', MarkSent PROVE Clean'
<1> DEFINE m == thread["main"]
<1>g. /\ Typed /\ TypeOK /\ PendingTyped /\ Clean /\ Legs \subseteq Threads /\ "main" \in Threads
      /\ m.pc = "placed" /\ m.p \in PairOrders /\ m.p.id = started
    BY GoodFacts, JobTypes DEF MarkSent, Typed, Identities
<1>t. /\ thread'["main"] = Idle /\ Idle.pc = "idle"
      /\ \A l \in Legs : thread'[l] = thread[l]
      /\ \A t \in Threads : t = "main" \/ t \in Legs
    BY <1>g, MainGoes DEF MarkSent, Idle
<1>u. UNCHANGED <<units, blocks, orders, started>> /\ (Locked' <=> Locked)
    BY DEF MarkSent, Locked
<1>f. m.p.first \in Legs
    BY <1>g DEF PairOrders
<1>1. CASE ~Waits
    <2>1. ~Waits'
        <3>1. pending.id # m.p.id
            BY <1>1, <1>g, PendingFacts DEF PairOrders
        <3> QED  BY <1>1, <3>1 DEF MarkSent, Flag, Waits
    <2>2. FlattenTif = "IOC" => Unlocked'
        <3>1. NoneLive' = NoneLive /\ Balanced' = Balanced
            BY <1>u DEF NoneLive, Balanced
        <3> QED  BY <1>1, <1>g, <1>t, <1>u, <2>1, <3>1 DEF Clean, Unlocked
    <2> QED  BY <1>g, <1>t, <1>u, <2>1, <2>2, SameChanges, Frees DEF Working
<1>2. CASE Waits
    <2>1. pending.id = m.p.id /\ pending \in PairOrders /\ pending.first \in Legs
        BY <1>2, <1>g, PendingFacts DEF PendingTyped
    <2>2. m.p.first = pending.first
        BY <1>2, <1>g DEF Clean, OnePlan, Plan, Working
    <2>3. pending.sent \cup {m.p.first} \subseteq Legs
        BY <1>2, <1>f, <1>g, PendingFacts
    <2>4. /\ Waits' /\ pending'.sign = pending.sign /\ pending'.qty = pending.qty
          /\ pending'.first = pending.first /\ pending'.handled = pending.handled
          /\ pending'.target = pending.target
          /\ pending'.sent = pending.sent \cup {pending.first}
        BY <1>2, <1>g, <1>u, <2>1, <2>2, <2>3, FlagFacts DEF MarkSent
    <2>5. KeepsPending
        BY <1>2, <2>4 DEF KeepsPending
    <2>6. /\ \A r \in Roles : Has(r)' <=> Has(r)
          /\ FirstDone' <=> FirstDone
          /\ Second' = Second
          /\ \A i \in DOMAIN orders, r \in Roles : Mine(i, r)' <=> Mine(i, r)
          /\ Current' /\ OnePlan' /\ Placing' /\ OnceEach' /\ AfterFirst' /\ Amounts'
          /\ FlattenTif = "IOC" => Unlocked'
        <3>1. \A t \in Threads : Working(t)' => thread'[t] = thread[t]
            BY <1>t DEF Working
        <3> QED  BY <1>g, <1>t, <1>u, <2>5, <3>1, FlagStep
    <2>7. Second # pending.first
        BY <2>1, LegFacts DEF Second
    <2>8. SecondJobs' /\ FlattenJobs'
        BY <1>2, <1>g, <1>t, <1>u, <2>4, <2>6, <2>7 DEF Clean, SecondJobs, FlattenJobs, Roles
    <2>9. FailureAfterFirst' /\ Flags'
        <3>1. \A t \in Threads : thread'[t].pc = "failing" => thread[t].pc = "failing"
            BY <1>t
        <3> QED  BY <1>2, <1>g, <1>t, <2>4, <2>6, <2>7, <3>1 DEF Clean, FailureAfterFirst, Flags, Roles
    <2>10. SecondIsOff'
        <3>1. Failed' <=> Failed
            BY <1>t, <2>4 DEF Failed
        <3> QED  BY <1>2, <1>g, <1>t, <1>u, <2>4, <2>6, <2>7, <3>1 DEF Clean, SecondIsOff, Roles
    <2> QED  BY <2>6, <2>8, <2>9, <2>10 DEF Clean
<1> QED  BY <1>1, <1>2

LEMMA CleanOverdue == ASSUME Good, Typed', Overdue PROVE Clean'
<1> DEFINE m == thread["main"]
<1>g. /\ Typed /\ TypeOK /\ PendingTyped /\ Clean /\ Legs \subseteq Threads /\ "main" \in Threads
      /\ m.pc \in {"idle", "route"} /\ Waits /\ Waits' /\ ~pending.handled
      /\ UNCHANGED <<units, pending, orders, started>> /\ Locked'
      /\ pending.first \in Legs
    BY GoodFacts, PendingFacts DEF Overdue, Waits, Locked
<1>t. /\ \/ thread'["main"].pc = "failing" /\ Second \in pending.sent
         \/ thread'["main"].pc = "expire" /\ thread'["main"].p = pending
      /\ \A l \in Legs : thread'[l] = thread[l]
      /\ \A t \in Threads : t = "main" \/ t \in Legs
    <2>1. CASE Second \in pending.sent
        <3>1. Goes("main", [pc |-> "failing"])
            BY <2>1 DEF Overdue, TimedOutLeg, Second
        <3> QED  BY <1>g, <2>1, <3>1, MainGoes
    <2>2. CASE Second \notin pending.sent
        <3>1. Goes("main", Job("expire", pending))
            BY <2>2 DEF Overdue, TimedOutLeg, Second
        <3> QED  BY <1>g, <3>1, MainGoes DEF Job
    <2> QED  BY <2>1, <2>2
<1>1. /\ \A r \in Roles : Has(r)' <=> Has(r)
      /\ FirstDone' <=> FirstDone
      /\ Second' = Second
      /\ Current' /\ OnePlan' /\ Placing' /\ OnceEach' /\ AfterFirst' /\ Amounts'
      /\ FlattenTif = "IOC" => Unlocked'
    <2>1. KeepsPending
        BY <1>g DEF KeepsPending
    <2>2. \A t \in Threads : Working(t)' => thread'[t] = thread[t] \/ (thread'[t].p = pending /\ thread'[t].pc # "place")
        BY <1>t DEF Working
    <2> QED  BY <1>g, <1>t, <2>1, <2>2, FlagStep
<1>2. SecondJobs' /\ FlattenJobs'
    BY <1>g, <1>t, <1>1 DEF Clean, SecondJobs, FlattenJobs, Roles
<1>3. FailureAfterFirst' /\ Flags'
    BY <1>g, <1>t, <1>1 DEF Clean, FailureAfterFirst, Flags, Roles
<1>4. SecondIsOff'
    <2>1. pending.first \in pending.sent
        BY <1>g DEF Clean, Flags
    <2> QED  BY <1>g, <2>1 DEF SecondIsOff
<1> QED  BY <1>1, <1>2, <1>3, <1>4 DEF Clean

LEMMA CleanExpire == ASSUME Good, Typed', Expire PROVE Clean'
<1> DEFINE m == thread["main"]
<1>g. /\ Typed /\ TypeOK /\ Clean /\ Legs \subseteq Threads /\ "main" \in Threads
      /\ m.pc = "expire" /\ UNCHANGED <<units, orders, started>> /\ Locked /\ Locked'
    BY GoodFacts DEF Expire, Typed, Identities, Locked
<1>t. /\ thread'["main"] = Idle /\ Idle.pc = "idle"
      /\ \A l \in Legs : thread'[l] = thread[l]
      /\ \A t \in Threads : t = "main" \/ t \in Legs
    BY <1>g, MainGoes DEF Expire, Idle
<1>c. Changed /\ \A j \in DOMAIN orders : orders'[j].left = orders[j].left
    BY <1>g, SameChanges
<1>1. CASE UNCHANGED pending
    BY <1>1, <1>g, <1>t, <1>c, Frame DEF Working
<1>2. CASE pending' = NoPending
    BY <1>2, <1>g, <1>t, <1>c, Frees DEF Working, Waits, Unlocked
<1> QED  BY <1>1, <1>2 DEF Expire

LEMMA CleanCooldownEnds == ASSUME Good, Typed', CooldownEnds PROVE Clean'
<1>1. TypeOK /\ Clean /\ UNCHANGED <<units, pending, orders, thread, started>> /\ (Locked => Locked')
    BY GoodFacts DEF CooldownEnds, Locked
<1>2. Changed /\ \A j \in DOMAIN orders : orders'[j].left = orders[j].left
    BY <1>1, SameChanges
<1> QED  BY <1>1, <1>2, Frame DEF Clean, Placing

\* Thread t sends an order of the pair order it works for.
LEMMA AcceptPlan ==
    ASSUME Good, NEW t \in Threads, Working(t), NEW o, Accept(o), UNCHANGED <<pending, started>>,
           thread[t].p.id = started, o.pid = started, o.role \in Roles, ~Has(o.role),
           o.role # "first" => FirstDone, o.tif \in {"FOK", "IOC"},
           o.qty = thread[t].p.qty,
           o.leg = IF o.role = "second" THEN Other(thread[t].p.first) ELSE thread[t].p.first,
           o.sign = IF o.role = "flatten" THEN -thread[t].p.sign ELSE thread[t].p.sign,
           \A u \in Threads : Working(u)' => Working(u) /\ thread'[u].p = thread[u].p
    PROVE  /\ OnePlan' /\ OnceEach' /\ AfterFirst'
           /\ \E n \in Nat :
                /\ DOMAIN orders' = 1..n /\ n \notin DOMAIN orders /\ n \in DOMAIN orders'
                /\ \A i \in DOMAIN orders : i \in DOMAIN orders' /\ orders'[i] = orders[i]
                /\ \A i \in DOMAIN orders' : i = n \/ i \in DOMAIN orders
                /\ orders'[n].pid = started /\ orders'[n].live
                /\ orders'[n].left = orders'[n].qty /\ orders'[n].qty = o.qty
                /\ \A i \in DOMAIN orders, r \in Roles : Mine(i, r)' <=> Mine(i, r)
                /\ \A r \in Roles : Mine(n, r)' <=> r = o.role
           /\ \A r \in Roles : Has(r)' <=> (Has(r) \/ r = o.role)
           /\ FirstDone => FirstDone'
           /\ thread[t].p.first \in Legs /\ thread[t].p.qty \in Nat \ {0}
           /\ Waits => /\ pending.first = thread[t].p.first /\ pending.qty = thread[t].p.qty
                       /\ pending.sign = thread[t].p.sign
<1>g. Typed /\ TypeOK /\ PendingTyped /\ Clean
    BY GoodFacts
<1>p. PICK s \in {1, -1}, q \in Nat \ {0}, f \in Legs : Plan(s, q, f)
    BY <1>g DEF Clean, OnePlan
<1>w. thread[t].p.sign = s /\ thread[t].p.qty = q /\ thread[t].p.first = f
    BY <1>p DEF Plan
<1>o. /\ o.leg = (IF o.role = "second" THEN Other(f) ELSE f) /\ o.leg \in Legs
      /\ o.sign = (IF o.role = "flatten" THEN -s ELSE s) /\ o.sign \in {1, -1}
      /\ o.qty = q
    BY <1>w, LegFacts
<1>1. started \in Nat \ {0}
    <2>1. t \in Legs \/ t = "main"
        BY DEF Threads
    <2>2. thread[t].p \in PairOrders
        BY <1>g, <2>1, JobTypes DEF Working
    <2> QED  BY <2>2 DEF PairOrders
<1>2. PICK n \in Nat :
           /\ DOMAIN orders' = 1..n /\ n \notin DOMAIN orders
           /\ \A i \in DOMAIN orders : i \in DOMAIN orders' /\ orders'[i] = orders[i]
           /\ \A i \in DOMAIN orders' : i = n \/ i \in DOMAIN orders
           /\ orders'[n].pid = started /\ orders'[n].role = o.role /\ orders'[n].leg = o.leg
           /\ orders'[n].sign = o.sign /\ orders'[n].qty = o.qty /\ orders'[n].left = o.qty /\ orders'[n].live
           /\ \A i \in DOMAIN orders, r \in Roles : Mine(i, r)' <=> Mine(i, r)
           /\ \A r \in Roles : Mine(n, r)' <=> r = o.role
           /\ \A r \in Roles : Has(r)' <=> (Has(r) \/ r = o.role)
           /\ FirstDone => FirstDone'
           /\ OnceEach' /\ AfterFirst'
    BY <1>g, <1>o, <1>1, AcceptedOrder DEF Clean
<1>n. n \in DOMAIN orders'
    <2>1. Has(o.role)'
        BY <1>2
    <2>2. PICK i \in DOMAIN orders' : TRUE
        BY <2>1 DEF Has
    <2> QED  BY <1>2, <2>2
<1>3. Plan(s, q, f)'
    <2>1. \A u \in Threads : Working(u)' => thread'[u].p.sign = s /\ thread'[u].p.qty = q /\ thread'[u].p.first = f
        BY <1>p DEF Plan
    <2>2. Waits' => pending'.sign = s /\ pending'.qty = q /\ pending'.first = f
        BY <1>p DEF Plan, Waits
    <2>3. \A i \in DOMAIN orders' : orders'[i].pid = started =>
              /\ orders'[i].qty = q
              /\ orders'[i].leg = IF orders'[i].role = "second" THEN Other(f) ELSE f
              /\ orders'[i].sign = IF orders'[i].role = "flatten" THEN -s ELSE s
        <3> SUFFICES ASSUME NEW i \in DOMAIN orders', orders'[i].pid = started
                     PROVE  /\ orders'[i].qty = q
                            /\ orders'[i].leg = IF orders'[i].role = "second" THEN Other(f) ELSE f
                            /\ orders'[i].sign = IF orders'[i].role = "flatten" THEN -s ELSE s
            OBVIOUS
        <3>1. CASE i = n
            BY <3>1, <1>o, <1>2
        <3>2. CASE i \in DOMAIN orders
            BY <3>2, <1>p, <1>2 DEF Plan
        <3> QED  BY <3>1, <3>2, <1>2
    <2> QED  BY <2>1, <2>2, <2>3 DEF Plan
<1>4. OnePlan'
    BY <1>3 DEF OnePlan
<1>5. Waits => pending.first = f /\ pending.qty = q /\ pending.sign = s
    BY <1>p DEF Plan
<1> QED  BY <1>2, <1>n, <1>4, <1>5, <1>w

LEMMA CleanPlaceFirst == ASSUME Good, Typed', PlaceFirst PROVE Clean'
<1> DEFINE m == thread["main"]
<1>g. /\ Typed /\ TypeOK /\ PendingTyped /\ Clean /\ Legs \subseteq Threads /\ "main" \in Threads
      /\ m.pc = "place" /\ m.p \in PairOrders /\ m.p.id = started
      /\ UNCHANGED <<units, blocks, started>> /\ (Locked' <=> Locked)
    BY GoodFacts, JobTypes DEF PlaceFirst, Typed, Identities, Locked
<1>p. /\ Settled /\ pending = m.p /\ pending.sent = {} /\ ~pending.handled
      /\ \A i \in DOMAIN orders : orders[i].pid # started
    BY <1>g DEF Clean, Placing
<1>w. Waits /\ pending.first \in Legs /\ Second \in Legs
    <2>1. m.p.id # 0 /\ m.p.first \in Legs
        BY <1>g DEF PairOrders
    <2> QED  BY <1>p, <2>1, LegFacts DEF Waits, NoPending, Second
<1>h. ~Has("first") /\ ~Has("second") /\ ~Has("flatten")
    BY <1>p DEF Has, Mine
<1>s. Short(pending.first) = pending.qty /\ Short(Second) = pending.qty
    BY <1>g, <1>w, <1>h DEF Clean, Amounts
<1>i. \A l \in Legs : thread[l] = Idle /\ thread[l].pc = "idle"
    BY <1>p DEF Settled, Idle
<1>q. /\ pending.qty = m.p.qty
      /\ \E l \in Legs : Short(l) # 0
    BY <1>g, <1>p, <1>w DEF Clean, Amounts
<1>d. \A i \in DOMAIN orders : ~orders[i].live
    BY <1>p DEF Settled
<1>1. CASE Accept(LegOrder(m.p, "first", m.p.first)) /\ Goes("main", Job("placed", m.p)) /\ UNCHANGED pending
    <2> DEFINE o == LegOrder(m.p, "first", m.p.first)
    <2>t. /\ thread'["main"] = Job("placed", m.p) /\ Job("placed", m.p).pc = "placed" /\ Job("placed", m.p).p = m.p
          /\ \A l \in Legs : thread'[l] = thread[l]
          /\ \A t \in Threads : t = "main" \/ t \in Legs
        BY <1>1, <1>g, MainGoes DEF Job
    <2>o. /\ o.pid = started /\ o.role = "first" /\ o.tif \in {"FOK", "IOC"} /\ o.qty = m.p.qty
          /\ o.leg = m.p.first /\ o.sign = m.p.sign
        BY <1>g DEF LegOrder
    <2> HIDE DEF o
    <2>1. /\ OnePlan' /\ OnceEach' /\ AfterFirst'
          /\ \E n \in Nat :
                /\ DOMAIN orders' = 1..n /\ n \notin DOMAIN orders /\ n \in DOMAIN orders'
                /\ \A i \in DOMAIN orders : i \in DOMAIN orders' /\ orders'[i] = orders[i]
                /\ \A i \in DOMAIN orders' : i = n \/ i \in DOMAIN orders
                /\ orders'[n].pid = started /\ orders'[n].live
                /\ orders'[n].left = orders'[n].qty /\ orders'[n].qty = o.qty
                /\ \A i \in DOMAIN orders, r \in Roles : Mine(i, r)' <=> Mine(i, r)
                /\ \A r \in Roles : Mine(n, r)' <=> r = o.role
          /\ \A r \in Roles : Has(r)' <=> (Has(r) \/ r = o.role)
        <3>1. Accept(o)
            BY <1>1 DEF o
        <3>2. \A u \in Threads : Working(u)' => Working(u) /\ thread'[u].p = thread[u].p
            BY <1>g, <1>i, <2>t DEF Working
        <3>3. Working("main")
            BY <1>g DEF Working
        <3> QED  BY <1>1, <1>g, <1>h, <2>o, <3>1, <3>2, <3>3, AcceptPlan DEF Roles
    <2>n. PICK n \in Nat :
                /\ DOMAIN orders' = 1..n /\ n \notin DOMAIN orders /\ n \in DOMAIN orders'
                /\ \A i \in DOMAIN orders : i \in DOMAIN orders' /\ orders'[i] = orders[i]
                /\ \A i \in DOMAIN orders' : i = n \/ i \in DOMAIN orders
                /\ orders'[n].pid = started /\ orders'[n].live
                /\ orders'[n].left = orders'[n].qty /\ orders'[n].qty = o.qty
                /\ \A i \in DOMAIN orders, r \in Roles : Mine(i, r)' <=> Mine(i, r)
                /\ \A r \in Roles : Mine(n, r)' <=> r = o.role
        BY <2>1
    <2>h. Has("first")' /\ ~Has("second")' /\ ~Has("flatten")'
        BY <1>h, <2>1, <2>o DEF Roles
    <2>2. Current' /\ Placing'
        <3>1. \A i \in DOMAIN orders' : orders'[i].live => orders'[i].pid = started
            BY <1>d, <2>n
        <3> QED  BY <1>g, <1>i, <2>t, <3>1 DEF Current, Placing
    <2>3. SecondJobs' /\ FlattenJobs'
        BY <1>i, <2>t DEF SecondJobs, FlattenJobs
    <2>4. FailureAfterFirst' /\ Flags' /\ SecondIsOff'
        <3>1. \A t \in Threads : thread'[t].pc # "failing"
            BY <1>i, <2>t
        <3>2. pending'.sent = {} /\ ~pending'.handled
            BY <1>1, <1>p
        <3>3. ~Failed'
            BY <1>g, <3>1, <3>2 DEF Failed
        <3> QED  BY <2>t, <2>h, <3>1, <3>2, <3>3 DEF FailureAfterFirst, Flags, SecondIsOff
    <2>5. Amounts'
        <3>0. UNCHANGED <<units, pending>>
            BY <1>1, <1>g
        <3>a. \A l \in Legs : Short(l)' = Short(l)
            BY <3>0 DEF Short, ShortAt
        <3>b. Short(pending.first)' = Short(pending.first)
            BY <3>0 DEF Short, ShortAt
        <3>c. Short(Second)' = Short(Second)
            BY <3>0 DEF Short, ShortAt, Second
        <3>1. /\ \A l \in Legs : Short(l)' = Short(l)
              /\ Short(pending.first)' = pending.qty /\ Short(Second)' = pending.qty
            BY <1>s, <3>a, <3>b, <3>c
        <3>2. \A i \in DOMAIN orders' : Mine(i, "first")' => orders'[i].left = pending.qty
            BY <1>g, <1>p, <1>q, <2>n, <2>o DEF Mine
        <3>3. \A i \in DOMAIN orders' : ~Mine(i, "second")' /\ ~Mine(i, "flatten")'
            BY <2>h DEF Has
        <3>4. \E l \in Legs : Short(l)' # 0
            BY <1>q, <3>1
        <3> QED  BY <1>1, <2>h, <3>1, <3>2, <3>3, <3>4 DEF Amounts
    <2>6. FlattenTif = "IOC" => Unlocked'
        BY <1>1, <1>g, <1>w DEF Clean, Unlocked, Waits
    <2> QED  BY <2>1, <2>2, <2>3, <2>4, <2>5, <2>6 DEF Clean
<1>2. CASE Refused /\ Goes("main", Idle) /\ UNCHANGED orders
    <2>t. /\ thread'["main"] = Idle /\ Idle.pc = "idle"
          /\ \A l \in Legs : thread'[l] = thread[l]
          /\ \A t \in Threads : t = "main" \/ t \in Legs
        BY <1>2, <1>g, MainGoes DEF Idle
    <2>1. ~Waits'
        BY <1>2 DEF Refused, Waits
    <2>2. FlattenTif = "IOC" => Unlocked'
        <3> SUFFICES ASSUME FlattenTif = "IOC", ~Locked' PROVE Balanced'
            BY <1>2, <1>d, <1>i, <2>t, <2>1 DEF Unlocked, NoneLive
        <3>1. pending.target["stock"] = pending.target["future"]
            BY <1>g, <1>w DEF Clean, Unlocked
        <3>2. Short("stock") = pending.qty /\ Short("future") = pending.qty
            BY <1>s, <1>w DEF Legs, Second, Other
        <3>3. pending.target["stock"] \in Int /\ units["stock"] \in Int /\ units["future"] \in Int /\ pending.qty \in Int
            BY <1>g, <1>w, PendingFacts DEF TypeOK, Legs
        <3> QED  BY <1>g, <3>1, <3>2, <3>3 DEF Short, ShortAt, Balanced
    <2> QED  BY <1>2, <1>g, <2>t, <2>1, <2>2, SameChanges, Frees DEF Working
<1> QED  BY <1>1, <1>2 DEF PlaceFirst

\* What a leg's thread knows when it is about to send the second leg.
LEMMA SecondJobFacts ==
    ASSUME Good, NEW l \in Legs, thread[l].pc = "second"
    PROVE  /\ thread[l].p \in PairOrders /\ thread[l].p.id = started /\ thread[l].p.first = l
           /\ FirstDone /\ ~Has("second")
           /\ Waits => Second \in pending.sent /\ pending.first = l /\ Second = Other(l) /\ pending.id = started
           /\ thread[Other(l)].pc # "second"
           /\ thread["main"].pc # "place"
<1>g. Typed /\ TypeOK /\ PendingTyped /\ Clean /\ Legs \subseteq Threads
    BY GoodFacts
<1>1. /\ thread[l].p \in PairOrders /\ thread[l].p.id = started /\ thread[l].p.first = l
      /\ FirstDone /\ ~Has("second")
      /\ Waits => Second \in pending.sent
    BY <1>g, JobTypes DEF Clean, SecondJobs, Current
<1>2. PICK s \in {1, -1}, q \in Nat \ {0}, f \in Legs : Plan(s, q, f)
    BY <1>g DEF Clean, OnePlan
<1>3. f = l /\ (Waits => pending.first = f)
    BY <1>g, <1>1, <1>2 DEF Plan, Working
<1>4. thread[Other(l)].pc # "second"
    BY <1>g, <1>2, <1>3, LegFacts DEF Clean, SecondJobs, Plan, Working
<1>5. thread["main"].pc # "place"
    BY <1>g DEF Clean, Placing, Settled, Idle
<1> QED  BY <1>g, <1>1, <1>3, <1>4, <1>5 DEF Second, PendingTyped

LEMMA CleanPlaceSecond == ASSUME Good, Typed', NEW l \in Legs, PlaceSecond(l) PROVE Clean'
<1> DEFINE p == thread[l].p
<1>g. /\ Typed /\ TypeOK /\ PendingTyped /\ Clean /\ Legs \subseteq Threads /\ "main" \in Threads
      /\ thread[l].pc = "second" /\ UNCHANGED <<units, blocks, started>> /\ (Locked' <=> Locked)
      /\ l # "main"
    BY GoodFacts DEF PlaceSecond, Locked, Legs
<1>p. /\ p \in PairOrders /\ p.id = started /\ p.first = l
      /\ FirstDone /\ ~Has("second")
      /\ Waits => Second \in pending.sent /\ pending.first = l /\ Second = Other(l) /\ pending.id = started
      /\ thread[Other(l)].pc # "second"
      /\ thread["main"].pc # "place"
      /\ p.sign \in {1, -1} /\ p.qty \in Nat \ {0}
    BY <1>g, SecondJobFacts DEF PairOrders
<1>x. Waits /\ Failed => Locked /\ pending.first \in pending.sent
    BY <1>g DEF Clean, SecondIsOff
<1>y. FlattenTif = "IOC" /\ ~Locked => Waits
    BY <1>g DEF Clean, Unlocked
<1>z. Second # pending.first \/ ~Waits
    BY <1>p, LegFacts
<1>1. CASE Accept(LegOrder(p, "second", Other(l))) /\ Goes(l, Idle) /\ UNCHANGED pending
    <2> DEFINE o == LegOrder(p, "second", Other(l))
    <2>t. /\ thread'[l] = Idle /\ Idle.pc = "idle"
          /\ \A u \in Threads : u # l => thread'[u] = thread[u]
        BY <1>1, <1>g, GoesOn DEF Idle
    <2>o. /\ o.pid = started /\ o.role = "second" /\ o.tif \in {"FOK", "IOC"} /\ o.qty = p.qty
          /\ o.leg = Other(p.first) /\ o.sign = p.sign
        BY <1>p DEF LegOrder
    <2> HIDE DEF o
    <2>1. /\ OnePlan' /\ OnceEach' /\ AfterFirst'
          /\ \E n \in Nat :
                /\ DOMAIN orders' = 1..n /\ n \notin DOMAIN orders /\ n \in DOMAIN orders'
                /\ \A i \in DOMAIN orders : i \in DOMAIN orders' /\ orders'[i] = orders[i]
                /\ \A i \in DOMAIN orders' : i = n \/ i \in DOMAIN orders
                /\ orders'[n].pid = started /\ orders'[n].live
                /\ orders'[n].left = orders'[n].qty /\ orders'[n].qty = o.qty
                /\ \A i \in DOMAIN orders, r \in Roles : Mine(i, r)' <=> Mine(i, r)
                /\ \A r \in Roles : Mine(n, r)' <=> r = o.role
          /\ \A r \in Roles : Has(r)' <=> (Has(r) \/ r = o.role)
          /\ FirstDone => FirstDone'
          /\ Waits => pending.qty = p.qty
        <3>1. Accept(o)
            BY <1>1 DEF o
        <3>2. \A u \in Threads : Working(u)' => Working(u) /\ thread'[u].p = thread[u].p
            BY <2>t DEF Working
        <3>3. Working(l) /\ l \in Threads
            BY <1>g DEF Working
        <3> QED  BY <1>1, <1>g, <1>p, <2>o, <3>1, <3>2, <3>3, AcceptPlan DEF Roles
    <2>n. PICK n \in Nat :
                /\ DOMAIN orders' = 1..n /\ n \notin DOMAIN orders /\ n \in DOMAIN orders'
                /\ \A i \in DOMAIN orders : i \in DOMAIN orders' /\ orders'[i] = orders[i]
                /\ \A i \in DOMAIN orders' : i = n \/ i \in DOMAIN orders
                /\ orders'[n].pid = started /\ orders'[n].live
                /\ orders'[n].left = orders'[n].qty /\ orders'[n].qty = o.qty
                /\ \A i \in DOMAIN orders, r \in Roles : Mine(i, r)' <=> Mine(i, r)
                /\ \A r \in Roles : Mine(n, r)' <=> r = o.role
        BY <2>1
    <2>h. /\ Has("first")' <=> Has("first")
          /\ Has("flatten")' <=> Has("flatten")
          /\ Has("second")'
        BY <2>1, <2>o DEF Roles
    <2>w. (Waits' <=> Waits) /\ Second' = Second
        BY <1>1 DEF Waits, Second
    <2>2. Current' /\ Placing'
        <3>1. \A i \in DOMAIN orders' : orders'[i].live => orders'[i].pid = started
            BY <1>g, <2>n DEF Clean, Current
        <3>2. \A k \in Legs : thread'[k].pc \in {"second", "flatten"} => thread'[k].p.id = started
            BY <1>g, <2>t DEF Clean, Current
        <3> QED  BY <1>g, <1>p, <2>t, <3>1, <3>2 DEF Clean, Current, Placing
    <2>3. SecondJobs' /\ FlattenJobs'
        <3>1. \A k \in Legs : thread'[k].pc # "second"
            BY <1>g, <1>p, <2>t, LegFacts
        <3>2. FlattenJobs'
            BY <1>1, <1>g, <2>t, <2>1, <2>h, <2>w DEF Clean, FlattenJobs
        <3> QED  BY <3>1, <3>2 DEF SecondJobs
    <2>4. FailureAfterFirst' /\ Flags'
        BY <1>1, <1>g, <1>p, <2>1, <2>t, <2>h, <2>w DEF Clean, FailureAfterFirst, Flags
    <2>5. SecondIsOff'
        <3>1. Failed' => Failed
            BY <1>1, <1>g, <2>t DEF Failed
        <3> QED  BY <1>1, <1>g, <1>x, <2>w, <3>1 DEF SecondIsOff
    <2>6. Amounts'
        <3> SUFFICES ASSUME Waits PROVE Amounts'
            BY <2>w DEF Amounts
        <3>0. UNCHANGED <<units, pending>>
            BY <1>1, <1>g
        <3>a. \A k \in Legs : Short(k)' = Short(k)
            BY <3>0 DEF Short, ShortAt
        <3>b. Short(pending.first)' = Short(pending.first)
            BY <3>0 DEF Short, ShortAt
        <3>c. Short(Second)' = Short(Second)
            BY <3>0 DEF Short, ShortAt, Second
        <3>d. Amounts
            BY <1>g DEF Clean
        <3>e. \A i \in DOMAIN orders' : Mine(i, "second")' => orders'[i].left = pending.qty
            <4>1. \A i \in DOMAIN orders : ~Mine(i, "second")
                BY <1>p DEF Has
            <4> QED  BY <4>1, <2>n, <2>o, <2>1 DEF Roles
        <3>f. \A i \in DOMAIN orders' : /\ Mine(i, "first")' => i \in DOMAIN orders /\ orders'[i] = orders[i] /\ Mine(i, "first")
                                        /\ Mine(i, "flatten")' => i \in DOMAIN orders /\ orders'[i] = orders[i] /\ Mine(i, "flatten")
            BY <2>n, <2>o DEF Roles
        <3>g. Short(Second) = pending.qty
            BY <1>p, <3>d DEF Amounts
        <3>h. ~Has("first")' => Short(pending.first)' = pending'.qty
            BY <2>h, <3>0, <3>b, <3>d DEF Amounts
        <3>i. \A i \in DOMAIN orders' : Mine(i, "first")' =>
                  /\ ~Has("flatten")' => Short(pending.first)' = orders'[i].left
                  /\ \A j \in DOMAIN orders' : Mine(j, "flatten")' =>
                        Short(pending.first)' = orders'[i].left + orders'[j].qty - orders'[j].left
            BY <2>h, <3>b, <3>d, <3>f DEF Amounts
        <3>j. \E k \in Legs : Short(k)' # 0
            BY <3>a, <3>d DEF Amounts
        <3> QED  BY <2>h, <3>0, <3>c, <3>e, <3>g, <3>h, <3>i, <3>j DEF Amounts
    <2>7. FlattenTif = "IOC" => Unlocked'
        BY <1>1, <1>g, <1>y, <2>w DEF Clean, Unlocked
    <2> QED  BY <2>1, <2>2, <2>3, <2>4, <2>5, <2>6, <2>7 DEF Clean
<1>n. ASSUME UNCHANGED orders, ~Waits, UNCHANGED pending, NEW j, Goes(l, j), ~Working(l)'
      PROVE  Clean'
    <2>t. /\ thread'[l] = j
          /\ \A u \in Threads : u # l => thread'[u] = thread[u]
        BY <1>n, <1>g, GoesOn
    <2>1. Changed /\ ~Waits'
        BY <1>n, <1>g, SameChanges DEF Waits
    <2>2. \A u \in Threads : Working(u)' => thread'[u] = thread[u]
        BY <1>n, <2>t
    <2>3. FlattenTif = "IOC" => Unlocked'
        BY <1>n, <1>g, <1>y DEF Unlocked
    <2>4. /\ thread'["main"].pc # "place"
          /\ thread'["main"].pc = "store" => thread'["main"].p.sent = {} /\ ~thread'["main"].p.handled
        BY <1>g, <1>p, <2>t DEF Clean, Placing
    <2> QED  BY <1>g, <2>1, <2>2, <2>3, <2>4, Frees
<1>k. ASSUME UNCHANGED orders, KeepsPending, NEW j, Goes(l, j), ~Working(l)', j.pc \in {"idle", "failing"},
             pending'.handled = pending.handled,
             \/ j.pc = "failing" /\ pending'.sent = pending.sent
             \/ j.pc = "idle" /\ pending'.sent = pending.sent \ {Second}
      PROVE  Clean'
    <2>t. /\ thread'[l] = j
          /\ \A u \in Threads : u # l => thread'[u] = thread[u]
        BY <1>k, <1>g, GoesOn
    <2>w. Waits /\ Waits'
        BY <1>k DEF KeepsPending
    <2>m. /\ thread["main"].pc # "place" /\ thread'["main"] = thread["main"]
          /\ thread["main"].pc = "store" => thread["main"].p.sent = {} /\ ~thread["main"].p.handled
        BY <1>g, <1>p, <2>t DEF Clean, Placing
    <2>1. /\ \A r \in Roles : Has(r)' <=> Has(r)
          /\ FirstDone' <=> FirstDone
          /\ Second' = Second
          /\ \A i \in DOMAIN orders, r \in Roles : Mine(i, r)' <=> Mine(i, r)
          /\ Current' /\ OnePlan' /\ Placing' /\ OnceEach' /\ AfterFirst' /\ Amounts'
          /\ FlattenTif = "IOC" => Unlocked'
        BY <1>k, <1>g, <2>t, <2>m, FlagStep
    <2>h. /\ Has("first")' <=> Has("first")
          /\ Has("flatten")' <=> Has("flatten")
          /\ ~Has("second")'
        BY <1>p, <2>1 DEF Roles
    <2>2. SecondJobs' /\ FlattenJobs'
        <3>1. \A k \in Legs : thread'[k].pc # "second"
            BY <1>k, <1>g, <1>p, <2>t, LegFacts
        <3>2. FlattenJobs'
            BY <1>k, <1>g, <2>t, <2>1, <2>h, <2>w DEF Clean, FlattenJobs
        <3> QED  BY <3>1, <3>2 DEF SecondJobs
    <2>3. FailureAfterFirst'
        BY <1>g, <1>p, <2>1 DEF FailureAfterFirst
    <2>4. Flags'
        <3>1. pending'.first = pending.first /\ (pending.first \in pending.sent => pending'.first \in pending'.sent)
            BY <1>k, <1>z, <2>w DEF KeepsPending
        <3> QED  BY <1>k, <1>g, <2>w, <2>m, <2>h, <3>1 DEF Clean, Flags
    <2>5. SecondIsOff'
        <3>1. CASE j.pc = "failing"
            <4>1. \A k \in Legs : thread'[k].pc # "second"
                BY <3>1, <1>g, <1>p, <2>t, LegFacts
            <4>2. \A i \in DOMAIN orders' : ~Mine(i, "second")'
                BY <2>h DEF Has
            <4>3. Second' \in pending'.sent
                BY <1>k, <1>p, <2>1, <2>w, <3>1
            <4> QED  BY <4>1, <4>2, <4>3 DEF SecondIsOff
        <3>2. CASE j.pc = "idle"
            <4>1. Failed' => Failed
                BY <1>k, <1>g, <2>t, <3>2 DEF Failed
            <4>2. pending'.first = pending.first /\ (pending.first \in pending.sent => pending'.first \in pending'.sent)
                BY <1>k, <1>z, <2>w DEF KeepsPending
            <4> QED  BY <1>g, <1>x, <2>w, <4>1, <4>2 DEF SecondIsOff
        <3> QED  BY <1>k, <3>1, <3>2
    <2> QED  BY <2>1, <2>2, <2>3, <2>4, <2>5 DEF Clean
<1>2. CASE Goes(l, [pc |-> "failing"]) /\ UNCHANGED <<orders, pending>>
    <2>1. ~Working(l)'
        BY <1>2, <1>g, GoesOn DEF Working
    <2>2. Waits => KeepsPending
        BY <1>2 DEF KeepsPending, Waits
    <2> QED  BY <1>2, <2>1, <2>2, <1>n, <1>k
<1>3. CASE Flag(p, pending.sent \ {Other(l)}) /\ Goes(l, Idle) /\ UNCHANGED orders
    <2>1. ~Working(l)' /\ Idle.pc = "idle"
        BY <1>3, <1>g, GoesOn DEF Working, Idle
    <2>2. Waits => pending.sent \ {Other(l)} \subseteq Legs
        BY <1>g, PendingFacts
    <2>3. /\ Waits' <=> Waits
          /\ Waits => /\ pending'.id = pending.id /\ pending'.sign = pending.sign /\ pending'.qty = pending.qty
                      /\ pending'.first = pending.first /\ pending'.handled = pending.handled
                      /\ pending'.target = pending.target
                      /\ pending'.sent = IF pending.id = p.id THEN pending.sent \ {Other(l)} ELSE pending.sent
        BY <1>3, <1>g, <1>p, <2>2, FlagFacts
    <2>4. CASE Waits
        <3>1. KeepsPending /\ pending'.sent = pending.sent \ {Second} /\ pending'.handled = pending.handled
            BY <1>p, <2>3, <2>4 DEF KeepsPending
        <3> QED  BY <1>3, <2>1, <3>1, <1>k
    <2>5. CASE ~Waits
        <3>1. UNCHANGED pending
            BY <2>3, <2>5 DEF Waits
        <3> QED  BY <1>3, <2>1, <2>5, <3>1, <1>n
    <2> QED  BY <2>4, <2>5
<1> QED  BY <1>1, <1>2, <1>3 DEF PlaceSecond

LEMMA CleanSecondFails == ASSUME Good, Typed', NEW t \in Threads, SecondFails(t) PROVE Clean'
<1>g. /\ Typed /\ TypeOK /\ PendingTyped /\ Clean /\ Legs \subseteq Threads /\ "main" \in Threads
      /\ thread[t].pc = "failing" /\ UNCHANGED <<units, orders, started>> /\ (Locked' <=> Locked)
      /\ t = "main" \/ t \in Legs
    BY GoodFacts DEF SecondFails, Locked, Threads
<1>1. CASE pending = NoPending \/ pending.handled
    <2>1. /\ thread'[t] = Idle /\ Idle.pc = "idle"
          /\ \A u \in Threads : u # t => thread'[u] = thread[u]
        BY <1>1, <1>g, GoesOn DEF SecondFails, Idle
    <2>2. Changed /\ \A j \in DOMAIN orders : orders'[j].left = orders[j].left
        BY <1>g, SameChanges
    <2> QED  BY <1>1, <1>g, <2>1, <2>2, Frame DEF SecondFails, Working, Clean, Placing
<1>2. CASE Waits /\ ~pending.handled
    <2>p. pending \in PairOrders /\ pending.first \in Legs /\ pending.sent \subseteq Legs
        BY <1>2, <1>g, PendingFacts
    <2>q. /\ KeepsPending /\ pending'.sent = pending.sent /\ pending'.handled
        <3>1. pending' = [pending EXCEPT !.handled = TRUE]
            BY <1>2 DEF SecondFails, Waits
        <3>2. UNCHANGED started
            BY <1>g
        <3>3. /\ Waits' /\ pending'.sign = pending.sign /\ pending'.qty = pending.qty
              /\ pending'.first = pending.first /\ pending'.target = pending.target
              /\ pending'.sent = pending.sent /\ pending'.handled = TRUE
            BY <1>2, <1>g, <2>p, <3>1, <3>2, FlagsTyped
        <3> QED  BY <1>2, <3>3 DEF KeepsPending
    <2>t. /\ thread'[t].pc \in {"idle", "flatten"} /\ (thread'[t].pc = "flatten" => thread'[t].p = pending)
          /\ \A u \in Threads : u # t => thread'[u] = thread[u]
        <3>1. Goes(t, IF Flattens THEN Job("flatten", pending) ELSE Idle)
            BY <1>2 DEF SecondFails, Waits
        <3>2. thread'[t] = IF Flattens THEN Job("flatten", pending) ELSE Idle
            BY <1>g, <3>1, GoesOn
        <3>3. Job("flatten", pending).pc = "flatten" /\ Job("flatten", pending).p = pending /\ Idle.pc = "idle"
            BY DEF Job, Idle
        <3> QED  BY <1>g, <3>1, <3>2, <3>3, GoesOn
    <2>f. FirstDone
        BY <1>2, <1>g DEF Clean, FailureAfterFirst
    <2>m. /\ thread["main"].pc # "place" /\ thread'["main"].pc # "place"
          /\ thread'["main"].pc = "store" => thread'["main"].p.sent = {} /\ ~thread'["main"].p.handled
          /\ thread'["main"].pc \in {"place", "placed"} <=> thread["main"].pc \in {"place", "placed"}
        <3>1. t \in Legs => thread["main"].pc # "place"
            BY <1>g DEF Clean, Placing, Settled, Idle
        <3> QED  BY <1>g, <2>t, <3>1 DEF Clean, Placing
    <2>1. /\ \A r \in Roles : Has(r)' <=> Has(r)
          /\ FirstDone' <=> FirstDone
          /\ Second' = Second
          /\ \A i \in DOMAIN orders, r \in Roles : Mine(i, r)' <=> Mine(i, r)
          /\ Current' /\ OnePlan' /\ Placing' /\ OnceEach' /\ AfterFirst' /\ Amounts'
          /\ FlattenTif = "IOC" => Unlocked'
        <3>1. \A u \in Threads : Working(u)' =>
                 thread'[u] = thread[u] \/ (thread'[u].p = pending /\ thread'[u].pc # "place")
            BY <2>t DEF Working
        <3>2. UNCHANGED <<units, orders, started>> /\ (Locked => Locked')
            BY <1>g
        <3> QED  BY <2>q, <2>m, <3>1, <3>2, FlagStep
    <2>w. Waits /\ Waits'
        BY <2>q DEF KeepsPending
    <2>h. /\ Has("first")' <=> Has("first")
          /\ Has("second")' <=> Has("second")
          /\ Has("flatten")' <=> Has("flatten")
          /\ ~Has("flatten")
        BY <1>2, <1>g, <2>1 DEF Roles, Clean, Flags
    <2>2. SecondJobs'
        <3>1. \A l \in Legs : thread'[l].pc = "second" => thread'[l] = thread[l]
            BY <1>g, <2>t
        <3> QED  BY <1>g, <2>1, <2>h, <2>q, <2>w, <3>1 DEF Clean, SecondJobs
    <2>3. FlattenJobs'
        <3>1. \A u \in Threads : thread'[u].pc = "flatten" => u = t
            BY <1>2, <1>g, <2>t DEF Clean, FlattenJobs
        <3> QED  BY <2>1, <2>f, <2>h, <2>q, <3>1 DEF FlattenJobs
    <2>4. FailureAfterFirst'
        BY <2>1, <2>f DEF FailureAfterFirst
    <2>5. Flags'
        BY <1>g, <2>h, <2>m, <2>q, <2>w, <2>1 DEF Clean, Flags, KeepsPending
    <2>6. SecondIsOff'
        <3>1. CASE t \in Legs
            <4>1. Failed
                BY <1>g, <3>1 DEF Failed
            <4>2. \A i \in DOMAIN orders : Mine(i, "second")' <=> Mine(i, "second")
                BY <2>1 DEF Roles
            <4>3. \A l \in Legs : thread'[l].pc = "second" => thread[l].pc = "second"
                BY <1>g, <2>t
            <4>4. pending'.first = pending.first /\ pending'.sent = pending.sent
                BY <2>q DEF KeepsPending
            <4> QED  BY <1>g, <2>1, <2>w, <4>1, <4>2, <4>3, <4>4 DEF Clean, SecondIsOff
        <3>2. CASE t = "main"
            <4>1. Locked'
                BY <1>g, <3>2 DEF Typed, Identities
            <4>2. pending'.first \in pending'.sent
                BY <1>g, <2>q, <2>w, <3>2 DEF Clean, Flags, KeepsPending
            <4> QED  BY <4>1, <4>2 DEF SecondIsOff
        <3> QED  BY <1>g, <3>1, <3>2
    <2> QED  BY <2>1, <2>2, <2>3, <2>4, <2>5, <2>6 DEF Clean
<1> QED  BY <1>1, <1>2 DEF Waits

LEMMA CleanPlaceFlatten == ASSUME Good, Typed', NEW t \in Threads, PlaceFlatten(t) PROVE Clean'
<1> DEFINE p == thread[t].p
<1>g. /\ Typed /\ TypeOK /\ PendingTyped /\ Clean /\ Legs \subseteq Threads /\ "main" \in Threads
      /\ thread[t].pc = "flatten" /\ UNCHANGED <<units, pending, blocks, started>> /\ (Locked' <=> Locked)
      /\ t = "main" \/ t \in Legs
    BY GoodFacts DEF PlaceFlatten, Locked, Threads
<1>t. /\ thread'[t] = Idle /\ Idle.pc = "idle"
      /\ \A u \in Threads : u # t => thread'[u] = thread[u]
    BY <1>g, GoesOn DEF PlaceFlatten, Idle
<1>p. /\ p \in PairOrders /\ p.id = started
      /\ FirstDone /\ ~Has("flatten") /\ (Waits => pending.handled)
      /\ \A u \in Threads : thread[u].pc = "flatten" => u = t
    BY <1>g, JobTypes DEF Clean, FlattenJobs, Current, Typed, Identities
<1>m. /\ thread["main"].pc # "place" /\ thread'["main"].pc # "place"
      /\ thread'["main"].pc = "store" => thread'["main"].p.sent = {} /\ ~thread'["main"].p.handled
      /\ thread'["main"].pc \in {"place", "placed"} <=> thread["main"].pc \in {"place", "placed"}
    <2>1. t \in Legs => thread["main"].pc # "place"
        BY <1>g DEF Clean, Placing, Settled, Idle
    <2> QED  BY <1>g, <1>t, <2>1 DEF Clean, Placing
<1>y. FlattenTif = "IOC" /\ ~Locked => Waits
    BY <1>g DEF Clean, Unlocked, Typed, Identities
<1>1. CASE UNCHANGED orders
    <2>1. Changed /\ \A j \in DOMAIN orders : orders'[j].left = orders[j].left
        BY <1>1, <1>g, SameChanges
    <2> QED  BY <1>1, <1>g, <1>t, <1>m, <2>1, Frame DEF Working
<1>2. CASE Accept(FlattenOrder(p))
    <2> DEFINE o == FlattenOrder(p)
    <2>o. /\ o.pid = started /\ o.role = "flatten" /\ o.tif \in {"FOK", "IOC"} /\ o.qty = p.qty
          /\ o.leg = p.first /\ o.sign = -p.sign
        BY <1>p, LiveAssumption DEF FlattenOrder
    <2> HIDE DEF o
    <2>1. /\ OnePlan' /\ OnceEach' /\ AfterFirst'
          /\ \E n \in Nat :
                /\ DOMAIN orders' = 1..n /\ n \notin DOMAIN orders /\ n \in DOMAIN orders'
                /\ \A i \in DOMAIN orders : i \in DOMAIN orders' /\ orders'[i] = orders[i]
                /\ \A i \in DOMAIN orders' : i = n \/ i \in DOMAIN orders
                /\ orders'[n].pid = started /\ orders'[n].live
                /\ orders'[n].left = orders'[n].qty /\ orders'[n].qty = o.qty
                /\ \A i \in DOMAIN orders, r \in Roles : Mine(i, r)' <=> Mine(i, r)
                /\ \A r \in Roles : Mine(n, r)' <=> r = o.role
          /\ \A r \in Roles : Has(r)' <=> (Has(r) \/ r = o.role)
          /\ FirstDone => FirstDone'
        <3>1. Accept(o)
            BY <1>2 DEF o
        <3>2. \A u \in Threads : Working(u)' => Working(u) /\ thread'[u].p = thread[u].p
            BY <1>t DEF Working
        <3>3. Working(t)
            BY <1>g DEF Working
        <3> QED  BY <1>g, <1>p, <2>o, <3>1, <3>2, <3>3, AcceptPlan DEF Roles
    <2>n. PICK n \in Nat :
                /\ DOMAIN orders' = 1..n /\ n \notin DOMAIN orders /\ n \in DOMAIN orders'
                /\ \A i \in DOMAIN orders : i \in DOMAIN orders' /\ orders'[i] = orders[i]
                /\ \A i \in DOMAIN orders' : i = n \/ i \in DOMAIN orders
                /\ orders'[n].pid = started /\ orders'[n].live
                /\ orders'[n].left = orders'[n].qty /\ orders'[n].qty = o.qty
                /\ \A i \in DOMAIN orders, r \in Roles : Mine(i, r)' <=> Mine(i, r)
                /\ \A r \in Roles : Mine(n, r)' <=> r = o.role
        BY <2>1
    <2>h. /\ Has("first")' <=> Has("first")
          /\ Has("second")' <=> Has("second")
          /\ Has("flatten")'
        BY <2>1, <2>o DEF Roles
    <2>w. (Waits' <=> Waits) /\ Second' = Second
        BY <1>g DEF Waits, Second
    <2>2. Current' /\ Placing'
        <3>1. \A i \in DOMAIN orders' : orders'[i].live => orders'[i].pid = started
            BY <1>g, <2>n DEF Clean, Current
        <3>2. \A k \in Legs : thread'[k].pc \in {"second", "flatten"} => thread'[k].p.id = started
            BY <1>g, <1>t DEF Clean, Current
        <3> QED  BY <1>g, <1>m, <3>1, <3>2 DEF Current, Placing
    <2>3. SecondJobs' /\ FlattenJobs'
        <3>1. \A u \in Threads : thread'[u].pc # "flatten"
            BY <1>p, <1>t
        <3>2. SecondJobs'
            BY <1>g, <1>p, <1>t, <2>1, <2>h, <2>w DEF Clean, SecondJobs
        <3> QED  BY <3>1, <3>2 DEF FlattenJobs
    <2>4. FailureAfterFirst'
        BY <1>p, <2>1 DEF FailureAfterFirst
    <2>f. Flags'
        BY <1>g, <1>p, <1>m, <2>h, <2>w DEF Clean, Flags
    <2>5. SecondIsOff'
        <3>1. Failed' => Failed
            BY <1>g, <1>t DEF Failed
        <3>2. \A i \in DOMAIN orders' : Mine(i, "second")' => i \in DOMAIN orders /\ orders'[i] = orders[i] /\ Mine(i, "second")
            BY <2>n, <2>o DEF Roles
        <3>3. \A l \in Legs : thread'[l].pc = "second" => thread[l].pc = "second"
            BY <1>g, <1>t
        <3> QED  BY <1>g, <2>w, <3>1, <3>2, <3>3 DEF Clean, SecondIsOff
    <2>6. Amounts'
        <3> SUFFICES ASSUME Waits PROVE Amounts'
            BY <2>w DEF Amounts
        <3>0. UNCHANGED <<units, pending>>
            BY <1>g
        <3>a. \A k \in Legs : Short(k)' = Short(k)
            BY <3>0 DEF Short, ShortAt
        <3>b. Short(pending.first)' = Short(pending.first)
            BY <3>0 DEF Short, ShortAt
        <3>c. Short(Second)' = Short(Second)
            BY <3>0 DEF Short, ShortAt, Second
        <3>d. Amounts
            BY <1>g DEF Clean
        <3>e. \A j \in DOMAIN orders' : Mine(j, "flatten")' => orders'[j].left = orders'[j].qty /\ orders'[j].qty \in Int
            <4>1. \A i \in DOMAIN orders : ~Mine(i, "flatten")
                BY <1>p DEF Has
            <4>2. o.qty \in Int
                BY <1>p, <2>o DEF PairOrders
            <4> QED  BY <4>1, <4>2, <2>n, <2>o DEF Roles
        <3>f. \A i \in DOMAIN orders' : /\ Mine(i, "first")' => i \in DOMAIN orders /\ orders'[i] = orders[i] /\ Mine(i, "first")
                                        /\ Mine(i, "second")' => i \in DOMAIN orders /\ orders'[i] = orders[i] /\ Mine(i, "second")
            BY <2>n, <2>o DEF Roles
        <3>g. \A i \in DOMAIN orders : orders[i].left \in Int
            BY <1>g, OrderTypes
        <3>h. ~Has("first")' => Short(pending.first)' = pending'.qty
            BY <2>h, <3>0, <3>b, <3>d DEF Amounts
        <3>i. \A i \in DOMAIN orders' : Mine(i, "first")' =>
                  \A j \in DOMAIN orders' : Mine(j, "flatten")' =>
                        Short(pending.first)' = orders'[i].left + orders'[j].qty - orders'[j].left
            <4>1. \A i \in DOMAIN orders' : Mine(i, "first")' => Short(pending.first)' = orders'[i].left /\ orders'[i].left \in Int
                BY <1>p, <3>b, <3>d, <3>f, <3>g DEF Amounts
            <4> QED  BY <4>1, <3>e
        <3>j. \E k \in Legs : Short(k)' # 0
            BY <3>a, <3>d DEF Amounts
        <3>k. /\ ~Has("second")' => Short(Second)' = pending'.qty
              /\ \A i \in DOMAIN orders' : Mine(i, "second")' => Short(Second)' = orders'[i].left
            BY <2>h, <3>0, <3>c, <3>d, <3>f DEF Amounts
        <3> QED  BY <2>h, <3>h, <3>i, <3>j, <3>k DEF Amounts
    <2>7. FlattenTif = "IOC" => Unlocked'
        BY <1>g, <1>y, <2>w DEF Clean, Unlocked
    <2> QED  BY <2>1, <2>2, <2>3, <2>4, <2>f, <2>5, <2>6, <2>7 DEF Clean
<1> QED  BY <1>1, <1>2 DEF PlaceFlatten

\* A thread that was called back is not idle: the main thread is not placing.
LEMMA NotPlacing ==
    ASSUME Good, (\E l \in Legs : thread[l].pc # "idle") \/ (\E i \in DOMAIN orders : orders[i].live)
    PROVE  /\ thread["main"].pc # "place"
           /\ Waits => Has("first")
           /\ Waits => \E i \in DOMAIN orders : Mine(i, "first")
BY GoodFacts DEF Clean, Placing, Settled, Idle, Flags, Has

\* The leg just filled is the first one, and it is filled whole.
LEMMA ReadyIsFirst ==
    ASSUME Good, NEW l \in Legs, thread[l].pc = "filled", Ready(l)
    PROVE  l = pending.first /\ FirstDone /\ ~Has("second") /\ Other(l) = Second
<1>g. /\ Typed /\ TypeOK /\ PendingTyped /\ Clean /\ Waits
      /\ Other(l) \notin pending.sent /\ AtTarget(l)
      /\ pending.first \in Legs /\ pending.target \in [Legs -> Int] /\ pending.qty \in Nat \ {0}
    BY GoodFacts, PendingFacts DEF Ready, Waits
<1>p. thread["main"].pc # "place" /\ Has("first")
    BY <1>g, NotPlacing
<1>s. Short(l) = 0
    BY <1>g DEF AtTarget, Short, ShortAt, TypeOK
<1>a. Amounts
    BY <1>g DEF Clean
<1>1. CASE l = pending.first
    <2>1. ~Has("second")
        BY <1>1, <1>g DEF Clean, Flags, Second
    <2>2. FirstDone
        <3>1. CASE Has("flatten")
            BY <3>1, GoodFacts
        <3>2. CASE ~Has("flatten")
            <4>1. PICK i \in DOMAIN orders : Mine(i, "first")
                BY <1>p DEF Has
            <4>2. orders[i].left = 0
                BY <1>1, <1>g, <1>s, <1>a, <3>2, <4>1 DEF Amounts
            <4> QED  BY <4>1, <4>2 DEF FirstDone
        <3> QED  BY <3>1, <3>2
    <2> QED  BY <1>1, <2>1, <2>2 DEF Second
<1>2. CASE l = Second
    <2>1. pending.first \notin pending.sent /\ l # pending.first
        BY <1>2, <1>g, LegFacts DEF Second
    <2>2. Has("second")
        BY <1>2, <1>g, <1>s, <1>a DEF Amounts
    <2>3. PICK j \in DOMAIN orders : Mine(j, "second")
        BY <2>2 DEF Has
    <2>4. orders[j].left = 0 /\ orders[j].qty \in Nat \ {0}
        BY <1>2, <1>g, <1>s, <1>a, <2>3, OrderTypes DEF Amounts
    <2>5. ~Failed
        BY <1>g, <2>1, <2>3, <2>4 DEF Clean, SecondIsOff
    <2>6. ~Has("flatten")
        BY <1>g, <2>5 DEF Clean, Flags, Failed
    <2>7. FirstDone
        BY <2>2, GoodFacts
    <2>8. Short(pending.first) = 0
        BY <1>g, <1>a, <2>6, <2>7 DEF Amounts, FirstDone
    <2>9. \A k \in Legs : k = l \/ k = pending.first
        BY <1>2, <1>g, LegFacts DEF Second
    <2> QED  BY <1>g, <1>a, <1>s, <2>8, <2>9 DEF Amounts
<1> QED  BY <1>1, <1>2, <1>g, LegFacts DEF Second

LEMMA CleanDefer == ASSUME Good, Typed', NEW l \in Legs, Defer(l) PROVE Clean'
<1>g. /\ Typed /\ TypeOK /\ PendingTyped /\ Clean /\ Legs \subseteq Threads /\ "main" \in Threads
      /\ thread[l].pc = "filled" /\ UNCHANGED <<units, orders, started>> /\ (Locked' <=> Locked)
      /\ thread["main"].pc # "place" /\ l # "main"
    BY GoodFacts, NotPlacing DEF Defer, Locked, Legs
<1>1. CASE ~Ready(l)
    <2>1. /\ thread'[l] = Idle /\ Idle.pc = "idle"
          /\ \A u \in Threads : u # l => thread'[u] = thread[u]
        BY <1>1, <1>g, GoesOn DEF Defer, Idle
    <2>2. Changed /\ \A j \in DOMAIN orders : orders'[j].left = orders[j].left
        BY <1>g, SameChanges
    <2>3. thread'["main"] = thread["main"]
        BY <1>g, <2>1
    <2> QED  BY <1>1, <1>g, <2>1, <2>2, <2>3, Frame DEF Defer, Working, Clean, Placing
<1>2. CASE Ready(l)
    <2>f. l = pending.first /\ FirstDone /\ ~Has("second") /\ Other(l) = Second
        BY <1>2, <1>g, ReadyIsFirst
    <2>p. Waits /\ Second \notin pending.sent /\ Second \in Legs /\ pending.sent \subseteq Legs /\ pending.handled \in BOOLEAN
          /\ pending \in PairOrders
        BY <1>2, <1>g, <2>f, PendingFacts, LegFacts DEF Ready, Waits
    <2>q. /\ KeepsPending /\ pending'.sent = pending.sent \cup {Second} /\ pending'.handled = pending.handled
          /\ pending'.id = pending.id
        <3>1. pending' = [pending EXCEPT !.sent = pending.sent \cup {Second}]
            BY <1>2, <2>f, <2>p DEF Defer
        <3>2. pending.sent \cup {Second} \in SUBSET Legs
            BY <2>p
        <3>3. UNCHANGED started
            BY <1>g
        <3> HIDE DEF Second
        <3>4. /\ Waits' /\ pending'.sign = pending.sign /\ pending'.qty = pending.qty
              /\ pending'.first = pending.first /\ pending'.target = pending.target
              /\ pending'.sent = pending.sent \cup {Second} /\ pending'.handled = pending.handled
              /\ pending'.id = pending.id
            BY <1>g, <2>p, <3>1, <3>2, <3>3, FlagsTyped
        <3> QED  BY <2>p, <3>4 DEF KeepsPending
    <2>t. /\ thread'[l].pc = "second" /\ thread'[l].p = pending
          /\ \A u \in Threads : u # l => thread'[u] = thread[u]
        <3>1. Goes(l, Job("second", pending))
            BY <1>2 DEF Defer
        <3> QED  BY <1>g, <3>1, GoesOn DEF Job
    <2>m. /\ thread'["main"] = thread["main"]
          /\ thread["main"].pc = "store" => thread["main"].p.sent = {} /\ ~thread["main"].p.handled
        BY <1>g, <2>t DEF Clean, Placing
    <2>1. /\ \A r \in Roles : Has(r)' <=> Has(r)
          /\ FirstDone' <=> FirstDone
          /\ Second' = Second
          /\ \A i \in DOMAIN orders, r \in Roles : Mine(i, r)' <=> Mine(i, r)
          /\ Current' /\ OnePlan' /\ Placing' /\ OnceEach' /\ AfterFirst' /\ Amounts'
          /\ FlattenTif = "IOC" => Unlocked'
        <3>1. \A u \in Threads : Working(u)' =>
                 thread'[u] = thread[u] \/ (thread'[u].p = pending /\ thread'[u].pc # "place")
            BY <2>t
        <3> QED  BY <1>g, <2>q, <2>m, <3>1, FlagStep
    <2>w. Waits' /\ pending'.first = pending.first
        BY <2>q DEF KeepsPending
    <2>h. /\ Has("first")' <=> Has("first")
          /\ Has("flatten")' <=> Has("flatten")
          /\ ~Has("second")'
        BY <2>f, <2>1 DEF Roles
    <2>z. Second # pending.first
        BY <2>f, LegFacts
    <2>2. SecondJobs'
        <3>1. \A k \in Legs : thread'[k].pc = "second" => k = l
            <4>1. ASSUME NEW k \in Legs, k # l, thread[k].pc = "second" PROVE FALSE
                BY <1>g, <2>f, <2>p, <4>1 DEF Clean, SecondJobs
            <4> QED  BY <1>g, <2>t, <4>1
        <3> QED  BY <2>f, <2>t, <2>q, <2>1, <2>h, <3>1 DEF SecondJobs
    <2>3. FlattenJobs'
        <3>1. \A u \in Threads : thread'[u].pc = "flatten" => thread'[u] = thread[u]
            BY <2>t
        <3> QED  BY <1>g, <2>1, <2>h, <2>p, <2>q, <3>1 DEF Clean, FlattenJobs
    <2>4. FailureAfterFirst'
        BY <2>1, <2>f DEF FailureAfterFirst
    <2>5. Flags'
        BY <1>g, <2>h, <2>m, <2>p, <2>q, <2>w, <2>z DEF Clean, Flags
    <2>6. SecondIsOff'
        <3>1. Failed' => Failed
            BY <1>g, <2>t, <2>q DEF Failed
        <3>2. pending'.first \notin pending'.sent => pending.first \notin pending.sent
            BY <2>q, <2>w
        <3>3. Waits /\ Failed => pending.first \in pending.sent /\ Locked
            BY <1>g, <2>p DEF Clean, SecondIsOff
        <3> QED  BY <1>g, <2>p, <3>1, <3>2, <3>3 DEF SecondIsOff
    <2> QED  BY <2>1, <2>2, <2>3, <2>4, <2>5, <2>6 DEF Clean
<1> QED  BY <1>1, <1>2

\* An order that ends without a further fill, and nothing else.
LEMMA OnlyEnds ==
    ASSUME Good, Typed', NEW i \in DOMAIN orders, UNCHANGED <<units, pending, thread, started>>,
           orders' \in {orders, [orders EXCEPT ![i].live = FALSE]}, Locked => Locked'
    PROVE  Clean'
<1>1. TypeOK /\ Clean
    BY GoodFacts
<1>2. Changed /\ \A j \in DOMAIN orders : orders'[j].left = orders[j].left
    BY <1>1, SameChanges, KillChanges
<1> QED  BY <1>1, <1>2, Frame DEF Clean, Placing

LEMMA CleanPartialReport == ASSUME Good, Typed', NEW i \in DOMAIN orders, PartialReport(i) PROVE Clean'
BY OnlyEnds DEF PartialReport, Locked

LEMMA CleanCancelRest == ASSUME Good, Typed', NEW i \in DOMAIN orders, CancelRest(i) PROVE Clean'
BY OnlyEnds DEF CancelRest, Locked

\* The role of an order of the pending pair order, by its leg.
LEMMA OrderRole ==
    ASSUME Good, Waits, NEW i \in DOMAIN orders, orders[i].pid = started
    PROVE  /\ orders[i].qty = pending.qty
           /\ orders[i].role = "second" => orders[i].leg = Second
           /\ orders[i].role # "second" => orders[i].leg = pending.first
           /\ orders[i].sign = IF orders[i].role = "flatten" THEN -pending.sign ELSE pending.sign
           /\ Second # pending.first
           /\ orders[i].role \in Roles /\ Mine(i, orders[i].role)
<1>1. Clean /\ TypeOK /\ pending.first \in Legs
    BY GoodFacts, PendingFacts
<1> QED  BY <1>1, OrderTypes, LegFacts DEF Clean, OnePlan, Plan, Second, Roles, Mine

LEMMA CleanReport == ASSUME Good, Typed', NEW i \in DOMAIN orders, NEW outcome, Report(i, outcome) PROVE Clean'
<1> DEFINE o == orders[i]
<1>g. /\ Typed /\ TypeOK /\ PendingTyped /\ Clean /\ Legs \subseteq Threads /\ "main" \in Threads
      /\ thread[o.leg] = Idle /\ o.live /\ o.left = o.qty /\ o.leg \in Legs /\ o.pid = started
      /\ o.qty \in Nat \ {0} /\ o.role \in Roles /\ o.leg # "main"
      /\ orders' = [orders EXCEPT ![i].live = FALSE] /\ UNCHANGED <<units, started>> /\ (Locked => Locked')
    BY GoodFacts, OrderTypes DEF Report, Locked, Legs, Clean, Current, Roles
<1>c. /\ Changed /\ ~orders'[i].live
      /\ \A j \in DOMAIN orders : orders'[j].left = orders[j].left
      /\ \A j \in DOMAIN orders : j # i => orders'[j] = orders[j]
    BY <1>g, KillChanges
<1>p. thread["main"].pc # "place" /\ (Waits => Has("first"))
    BY <1>g, NotPlacing
<1>m. /\ \A j \in DOMAIN orders, r \in Roles : Mine(j, r)' <=> Mine(j, r)
      /\ \A r \in Roles : Has(r)' <=> Has(r)
      /\ FirstDone => FirstDone'
    BY <1>g, <1>c, ChangedOrders
<1>1. CASE UNCHANGED <<pending, thread>>
    BY <1>1, <1>g, OnlyEnds
<1>2. CASE /\ Waits /\ o.tif = "FOK" /\ pending.first = o.leg
           /\ pending' = NoPending /\ UNCHANGED thread
           /\ blocks' = IF outcome = "reject" THEN blocks \cup {"disabled"} ELSE blocks
    <2>1. ~Waits'
        BY <1>2 DEF Waits
    <2>2. FlattenTif = "IOC" => Unlocked'
        <3> SUFFICES ASSUME FlattenTif = "IOC", ~Locked' PROVE Unlocked'
            BY DEF Unlocked
        <3>1. o.role = "first" /\ Mine(i, "first") /\ o.qty = pending.qty
            <4>1. o.role # "flatten"
                BY <1>2, <1>g DEF Typed, Identities
            <4> QED  BY <1>2, <1>g, <4>1, OrderRole DEF Roles
        <3>2. ~FirstDone
            BY <1>g, <3>1, GoodFacts DEF FirstDone, Roles
        <3>3. ~Has("second") /\ ~Has("flatten")
            BY <3>2, GoodFacts
        <3>4. /\ Short(pending.first) = pending.qty /\ Short(Second) = pending.qty
            BY <1>2, <1>g, <3>1, <3>3 DEF Clean, Amounts
        <3>5. pending.target["stock"] = pending.target["future"]
            BY <1>2, <1>g DEF Clean, Unlocked
        <3>6. Balanced'
            <4>1. Short("stock") = pending.qty /\ Short("future") = pending.qty
                BY <1>2, <1>g, <3>4 DEF Legs, Second, Other
            <4>2. pending.target["stock"] \in Int /\ units["stock"] \in Int /\ units["future"] \in Int /\ pending.qty \in Int
                BY <1>2, <1>g, PendingFacts DEF TypeOK, Legs
            <4> QED  BY <1>g, <3>5, <4>1, <4>2 DEF Short, ShortAt, Balanced
        <3>7. NoneLive'
            <4>1. ASSUME NEW j \in DOMAIN orders, j # i, orders[j].live PROVE FALSE
                <5>1. orders[j].pid = started /\ orders[j].role \in Roles
                    BY <1>g, <4>1, OrderTypes DEF Clean, Current, Roles
                <5>2. orders[j].role = "first"
                    BY <3>3, <5>1 DEF Has, Mine, Roles
                <5> QED  BY <3>1, <4>1, <5>1, <5>2, GoodFacts DEF Mine, Roles
            <4> QED  BY <1>c, <4>1 DEF NoneLive, Changed
        <3>8. \A l \in Legs : thread'[l].pc \notin {"second", "flatten"}
            BY <1>2, <1>g, <3>2 DEF Clean, SecondJobs, FlattenJobs
        <3> QED  BY <2>1, <3>6, <3>7, <3>8 DEF Unlocked
    <2>3. thread["main"].pc = "store" => thread["main"].p.sent = {} /\ ~thread["main"].p.handled
        BY <1>g DEF Clean, Placing
    <2> QED  BY <1>2, <1>g, <1>c, <1>p, <2>1, <2>2, <2>3, Frees
<1>3. CASE /\ Waits /\ pending.first # o.leg /\ o.leg \in pending.sent /\ ~pending.handled
           /\ Goes(o.leg, [pc |-> "failing"]) /\ UNCHANGED pending
    <2>1. o.role = "second" /\ o.leg = Second /\ Mine(i, "second")
        BY <1>3, <1>g, OrderRole
    <2>2. FirstDone /\ Has("second")
        BY <2>1, GoodFacts DEF Has
    <2>t. /\ thread'[o.leg].pc = "failing" /\ thread'["main"] = thread["main"]
          /\ \A u \in Threads : u # o.leg => thread'[u] = thread[u]
        BY <1>3, <1>g, GoesOn
    <2>w. Waits' /\ Second' = Second
        BY <1>3 DEF Waits, Second
    <2>j. \A l \in Legs : thread'[l].pc # "second"
        BY <1>g, <2>2, <2>t DEF Clean, SecondJobs
    <2>h. /\ Has("first")' <=> Has("first")
          /\ Has("second")' <=> Has("second")
          /\ Has("flatten")' <=> Has("flatten")
        BY <1>m DEF Roles
    <2>3. Current'
        <3>1. \A j \in DOMAIN orders' : orders'[j].live => orders'[j].pid = started
            BY <1>g, <1>c DEF Clean, Current, Changed
        <3>2. \A l \in Legs : thread'[l].pc \in {"second", "flatten"} => thread'[l] = thread[l]
            BY <1>g, <2>t
        <3> QED  BY <1>g, <3>1, <3>2 DEF Clean, Current
    <2>4. OnePlan'
        <3>1. PICK s \in {1, -1}, q \in Nat \ {0}, f \in Legs : Plan(s, q, f)
            BY <1>g DEF Clean, OnePlan
        <3>2. \A t \in Threads : Working(t)' => thread'[t].p.sign = s /\ thread'[t].p.qty = q /\ thread'[t].p.first = f
            BY <2>t, <3>1 DEF Plan, Working
        <3>3. Waits' => pending'.sign = s /\ pending'.qty = q /\ pending'.first = f
            BY <1>3, <3>1 DEF Plan
        <3>4. Plan(s, q, f)'
            BY <1>g, <1>c, <3>1, <3>2, <3>3, ChangedOrders DEF Plan
        <3> QED  BY <3>4 DEF OnePlan
    <2>5. Placing'
        BY <1>g, <1>p, <2>t DEF Clean, Placing
    <2>6. OnceEach' /\ AfterFirst'
        BY <1>g, <1>c, ChangedOrders DEF Clean
    <2>7. SecondJobs'
        BY <2>j DEF SecondJobs
    <2>8. FlattenJobs'
        <3>1. \A u \in Threads : thread'[u].pc = "flatten" => thread'[u] = thread[u]
            BY <2>t
        <3> QED  BY <1>3, <1>g, <1>m, <2>h, <3>1 DEF Clean, FlattenJobs, Waits
    <2>9. FailureAfterFirst'
        BY <1>m, <2>2 DEF FailureAfterFirst
    <2>10. Flags'
        BY <1>3, <1>g, <2>h, <2>t, <2>w DEF Clean, Flags
    <2>11. SecondIsOff'
        <3>1. \A j \in DOMAIN orders : Mine(j, "second") => j = i
            BY <2>1, GoodFacts DEF Roles
        <3>2. \A j \in DOMAIN orders' : Mine(j, "second")' => ~orders'[j].live /\ orders'[j].left = orders'[j].qty
            BY <1>g, <1>c, <1>m, <3>1 DEF Changed, Roles
        <3>3. Second' \in pending'.sent
            BY <1>3, <2>1, <2>w
        <3> QED  BY <2>j, <3>2, <3>3 DEF SecondIsOff
    <2>12. FlattenTif = "IOC" => Unlocked'
        BY <1>3, <1>g, <2>w DEF Clean, Unlocked
    <2>13. Amounts'
        <3>0. UNCHANGED <<units, pending>>
            BY <1>3, <1>g
        <3>a. \A k \in Legs : Short(k)' = Short(k)
            BY <3>0 DEF Short, ShortAt
        <3>b. Short(pending.first)' = Short(pending.first)
            BY <3>0 DEF Short, ShortAt
        <3>c. Short(Second)' = Short(Second)
            BY <3>0 DEF Short, ShortAt, Second
        <3>d. DOMAIN orders' = DOMAIN orders /\ \A j \in DOMAIN orders : orders'[j].left = orders[j].left /\ orders'[j].qty = orders[j].qty
            BY <1>c DEF Changed
        <3>e. \A j \in DOMAIN orders : /\ Mine(j, "first")' <=> Mine(j, "first")
                                       /\ Mine(j, "second")' <=> Mine(j, "second")
                                       /\ Mine(j, "flatten")' <=> Mine(j, "flatten")
            BY <1>m DEF Roles
        <3>f. Amounts /\ Waits
            BY <1>3, <1>g DEF Clean
        <3> QED  BY <2>h, <3>0, <3>a, <3>b, <3>c, <3>d, <3>e, <3>f DEF Amounts
    <2> QED  BY <2>3, <2>4, <2>5, <2>6, <2>7, <2>8, <2>9, <2>10, <2>11, <2>12, <2>13 DEF Clean
<1> QED  BY <1>1, <1>2, <1>3 DEF Report, Waits

LEMMA Sums ==
    \A x, y, z, k \in Int : (x + y - z) - k = (x - k) + y - z /\ (x + y - z) + k = x + y - (z - k)
OBVIOUS

\* What k parts filled of order i make of the distances to the targets.
LEMMA FillMoves ==
    ASSUME Good, Waits, NEW i \in DOMAIN orders, orders[i].live, NEW k \in 1..orders[i].left,
           units' = [units EXCEPT ![orders[i].leg] = @ + orders[i].sign * k]
    PROVE  /\ \A l \in Legs : Short(l) \in Int
           /\ \A l \in Legs : ShortAt(units', l) =
                  IF l # orders[i].leg THEN Short(l)
                  ELSE IF orders[i].role = "flatten" THEN Short(l) + k ELSE Short(l) - k
<1>g. /\ TypeOK /\ Clean /\ orders[i].leg \in Legs /\ orders[i].pid = started /\ k \in Int
      /\ pending.sign \in {1, -1} /\ pending.target \in [Legs -> Int] /\ units \in [Legs -> Int]
    BY GoodFacts, OrderTypes, PendingFacts DEF Clean, Current, TypeOK
<1>1. orders[i].sign = IF orders[i].role = "flatten" THEN -pending.sign ELSE pending.sign
    BY <1>g, OrderRole
<1>2. \A l \in Legs : Short(l) \in Int
    BY <1>g DEF Short, ShortAt
<1>3. ASSUME NEW l \in Legs
      PROVE  ShortAt(units', l) =
                  IF l # orders[i].leg THEN Short(l)
                  ELSE IF orders[i].role = "flatten" THEN Short(l) + k ELSE Short(l) - k
    <2> DEFINE d == orders[i].sign * k
    <2>1. units'[l] = IF l = orders[i].leg THEN units[l] + d ELSE units[l]
        BY <1>g
    <2>2. units[l] \in Int /\ pending.target[l] \in Int
        BY <1>g
    <2>3. CASE pending.sign = 1
        <3>1. d = IF orders[i].role = "flatten" THEN -k ELSE k
            BY <1>1, <1>g, <2>3
        <3> HIDE DEF d
        <3> QED  BY <1>g, <2>1, <2>2, <2>3, <3>1 DEF Short, ShortAt
    <2>4. CASE pending.sign = -1
        <3>1. d = IF orders[i].role = "flatten" THEN k ELSE -k
            BY <1>1, <1>g, <2>4
        <3> HIDE DEF d
        <3> QED  BY <1>g, <2>1, <2>2, <2>4, <3>1 DEF Short, ShortAt
    <2> QED  BY <1>g, <2>3, <2>4
<1> QED  BY <1>2, <1>3

\* The distances keep telling what is left of the orders.
LEMMA FillAmounts ==
    ASSUME Good, Waits, NEW i \in DOMAIN orders, orders[i].live, NEW k \in 1..orders[i].left,
           units' = [units EXCEPT ![orders[i].leg] = @ + orders[i].sign * k],
           orders' = [orders EXCEPT ![i].left = orders[i].left - k, ![i].live = k < orders[i].left]
    PROVE  /\ \A a \in DOMAIN orders : Mine(a, "first") =>
                 /\ ~Has("flatten") => ShortAt(units', pending.first) = orders'[a].left
                 /\ \A b \in DOMAIN orders : Mine(b, "flatten") =>
                       ShortAt(units', pending.first) = orders'[a].left + orders'[b].qty - orders'[b].left
           /\ ~Has("second") => ShortAt(units', Second) = pending.qty
           /\ \A b \in DOMAIN orders : Mine(b, "second") => ShortAt(units', Second) = orders'[b].left
<1>g. /\ TypeOK /\ Clean /\ pending.first \in Legs /\ Second \in Legs /\ Second # pending.first
      /\ orders[i].pid = started /\ orders[i].role \in Roles /\ Mine(i, orders[i].role)
      /\ orders[i].role = "second" => orders[i].leg = Second
      /\ orders[i].role # "second" => orders[i].leg = pending.first
    <2>1. TypeOK /\ Clean /\ pending.first \in Legs /\ Second \in Legs /\ orders[i].pid = started
        BY GoodFacts, PendingFacts, LegFacts DEF Second, Clean, Current
    <2> QED  BY <2>1, OrderRole
<1>c. /\ orders'[i].left = orders[i].left - k
      /\ \A j \in DOMAIN orders : j # i => orders'[j] = orders[j]
      /\ \A j \in DOMAIN orders : orders'[j].qty = orders[j].qty
      /\ \A j \in DOMAIN orders : orders[j].left \in Int /\ orders[j].qty \in Int
      /\ k \in Int
    <2>1. \A j \in DOMAIN orders : orders[j].left \in Int /\ orders[j].qty \in Int
        BY <1>g, OrderTypes
    <2>2. /\ Changed /\ orders'[i].left = orders[i].left - k
          /\ \A j \in DOMAIN orders : j # i => orders'[j] = orders[j]
        BY <1>g, FillChanges
    <2> QED  BY <2>1, <2>2 DEF Changed
<1>m. /\ \A l \in Legs : Short(l) \in Int
      /\ \A l \in Legs : ShortAt(units', l) =
                  IF l # orders[i].leg THEN Short(l)
                  ELSE IF orders[i].role = "flatten" THEN Short(l) + k ELSE Short(l) - k
    BY FillMoves
<1>a. Amounts
    BY <1>g DEF Clean
<1>1. ASSUME NEW a \in DOMAIN orders, Mine(a, "first")
      PROVE  /\ ~Has("flatten") => ShortAt(units', pending.first) = orders'[a].left
             /\ \A b \in DOMAIN orders : Mine(b, "flatten") =>
                       ShortAt(units', pending.first) = orders'[a].left + orders'[b].qty - orders'[b].left
    <2>1. /\ ~Has("flatten") => Short(pending.first) = orders[a].left
          /\ \A b \in DOMAIN orders : Mine(b, "flatten") =>
                       Short(pending.first) = orders[a].left + orders[b].qty - orders[b].left
        BY <1>1, <1>a DEF Amounts
    <2>2. CASE orders[i].role = "first"
        <3>1. a = i
            BY <1>1, <1>g, <2>2, GoodFacts DEF Roles
        <3>2. \A b \in DOMAIN orders : Mine(b, "flatten") => b # i
            BY <2>2 DEF Mine
        <3>3. ShortAt(units', pending.first) = Short(pending.first) - k
            BY <1>g, <1>m, <2>2
        <3>4. orders'[a].left = orders[a].left - k
            BY <1>c, <3>1
        <3>5. ~Has("flatten") => ShortAt(units', pending.first) = orders'[a].left
            BY <2>1, <3>3, <3>4
        <3>6. ASSUME NEW b \in DOMAIN orders, Mine(b, "flatten")
              PROVE  ShortAt(units', pending.first) = orders'[a].left + orders'[b].qty - orders'[b].left
            <4>1. orders'[b] = orders[b] /\ Short(pending.first) = orders[a].left + orders[b].qty - orders[b].left
                BY <1>c, <2>1, <3>2, <3>6
            <4>2. orders[a].left \in Int /\ orders[b].qty \in Int /\ orders[b].left \in Int /\ k \in Int
                BY <1>c
            <4>3. orders'[b].qty = orders[b].qty /\ orders'[b].left = orders[b].left
                BY <4>1
            <4> QED  BY <3>3, <3>4, <4>1, <4>2, <4>3, Sums
        <3> QED  BY <3>5, <3>6
    <2>3. CASE orders[i].role = "second"
        <3>1. ShortAt(units', pending.first) = Short(pending.first)
            BY <1>g, <1>m, <2>3
        <3>2. a # i /\ \A b \in DOMAIN orders : Mine(b, "flatten") => b # i
            BY <1>1, <2>3 DEF Mine
        <3> QED  BY <1>c, <2>1, <3>1, <3>2
    <2>4. CASE orders[i].role = "flatten"
        <3>1. ShortAt(units', pending.first) = Short(pending.first) + k
            BY <1>g, <1>m, <2>4
        <3>2. a # i /\ Has("flatten")
            BY <1>1, <1>g, <2>4 DEF Mine, Has
        <3>3. \A b \in DOMAIN orders : Mine(b, "flatten") => b = i
            BY <1>g, <2>4, GoodFacts DEF Roles
        <3>4. ASSUME NEW b \in DOMAIN orders, Mine(b, "flatten")
              PROVE  ShortAt(units', pending.first) = orders'[a].left + orders'[b].qty - orders'[b].left
            <4>1. b = i /\ Short(pending.first) = orders[a].left + orders[b].qty - orders[b].left
                BY <2>1, <3>3, <3>4
            <4>2. orders'[a] = orders[a] /\ orders'[b].qty = orders[b].qty /\ orders'[b].left = orders[b].left - k
                BY <1>c, <3>2, <4>1
            <4>3. orders[a].left \in Int /\ orders[b].qty \in Int /\ orders[b].left \in Int /\ k \in Int
                BY <1>c
            <4>4. orders'[a].left = orders[a].left
                BY <4>2
            <4> QED  BY <3>1, <4>1, <4>2, <4>3, <4>4, Sums
        <3> QED  BY <3>2, <3>4
    <2> QED  BY <1>g, <2>2, <2>3, <2>4 DEF Roles
<1>2. /\ ~Has("second") => ShortAt(units', Second) = pending.qty
      /\ \A b \in DOMAIN orders : Mine(b, "second") => ShortAt(units', Second) = orders'[b].left
    <2>1. /\ ~Has("second") => Short(Second) = pending.qty
          /\ \A b \in DOMAIN orders : Mine(b, "second") => Short(Second) = orders[b].left
        BY <1>a DEF Amounts
    <2>2. CASE orders[i].role = "second"
        <3>1. Has("second") /\ \A b \in DOMAIN orders : Mine(b, "second") => b = i
            BY <1>g, <2>2, GoodFacts DEF Roles, Has
        <3>2. ShortAt(units', Second) = Short(Second) - k
            BY <1>g, <1>m, <2>2
        <3> QED  BY <1>c, <2>1, <3>1, <3>2
    <2>3. CASE orders[i].role # "second"
        <3>1. \A b \in DOMAIN orders : Mine(b, "second") => b # i
            BY <2>3 DEF Mine
        <3>2. ShortAt(units', Second) = Short(Second)
            BY <1>g, <1>m, <2>3
        <3> QED  BY <1>c, <2>1, <3>1, <3>2
    <2> QED  BY <2>2, <2>3
<1> QED  BY <1>1, <1>2

\* A pair order is released only when nothing of it can still fill.
LEMMA FillReleases ==
    ASSUME Good, Waits, ~Locked, FlattenTif = "IOC", NEW i \in DOMAIN orders, orders[i].live, NEW k \in 1..orders[i].left,
           units' = [units EXCEPT ![orders[i].leg] = @ + orders[i].sign * k],
           orders' = [orders EXCEPT ![i].left = orders[i].left - k, ![i].live = k < orders[i].left],
           Released(units')
    PROVE  /\ units'["stock"] = units'["future"]
           /\ \A j \in DOMAIN orders : ~orders'[j].live
           /\ \A l \in Legs : thread[l].pc \notin {"second", "flatten"}
<1>g. /\ TypeOK /\ Clean /\ pending.first \in Legs /\ Second \in Legs /\ Second # pending.first
      /\ pending.target["stock"] = pending.target["future"]
      /\ pending.target \in [Legs -> Int] /\ pending.qty \in Nat \ {0} /\ pending.sign \in {1, -1}
      /\ \A l \in Legs : l = pending.first \/ l = Second
      /\ "stock" \in Legs /\ "future" \in Legs
    BY GoodFacts, PendingFacts, LegFacts DEF Second, Clean, Unlocked, Legs
<1>c. /\ Changed
      /\ orders'[i].left = orders[i].left - k
      /\ \A j \in DOMAIN orders : j # i => orders'[j] = orders[j]
      /\ \A j \in DOMAIN orders : orders[j].left \in Nat /\ orders[j].qty \in Nat \ {0} /\ (orders[j].live => orders[j].left > 0)
      /\ \A j \in DOMAIN orders : orders'[j].live => orders'[j].left > 0
      /\ units' \in [Legs -> Int]
    <2>1. units' \in [Legs -> Int]
        <3> DEFINE n == orders[i].sign * k
        <3>o. orders[i].leg \in Legs /\ orders[i].sign \in {1, -1} /\ orders[i].left \in Nat
            BY <1>g, OrderTypes
        <3>1. n \in Int /\ orders[i].leg \in Legs
            BY <3>o
        <3>2. units' = [units EXCEPT ![orders[i].leg] = @ + n]
            OBVIOUS
        <3> HIDE DEF n
        <3> QED  BY <1>g, <3>1, <3>2, UnitsChange DEF TypeOK
    <2> QED  BY <1>g, <2>1, FillChanges, OrderTypes DEF Changed
<1>r. \A j \in DOMAIN orders : orders[j].live => orders[j].pid = started /\ orders[j].role \in Roles /\ Mine(j, orders[j].role)
    BY <1>g, OrderTypes DEF Clean, Current, Roles, Mine
<1>s. Has("first") /\ \E a \in DOMAIN orders : Mine(a, "first")
    BY NotPlacing
<1>a. /\ \A a \in DOMAIN orders : Mine(a, "first") =>
                 /\ ~Has("flatten") => ShortAt(units', pending.first) = orders'[a].left
                 /\ \A b \in DOMAIN orders : Mine(b, "flatten") =>
                       ShortAt(units', pending.first) = orders'[a].left + orders'[b].qty - orders'[b].left
      /\ ~Has("second") => ShortAt(units', Second) = pending.qty
      /\ \A b \in DOMAIN orders : Mine(b, "second") => ShortAt(units', Second) = orders'[b].left
    BY FillAmounts
<1>p. PICK a \in DOMAIN orders : Mine(a, "first")
    BY <1>s
<1>o. \A r \in Roles, j, b \in DOMAIN orders : Mine(j, r) /\ Mine(b, r) => j = b
    BY GoodFacts
\* Once failed, the second leg is off, and everything of it is missing.
<1>f. ASSUME Failed
      PROVE  /\ \A l \in Legs : thread[l].pc # "second"
             /\ \A j \in DOMAIN orders : Mine(j, "second") => ~orders[j].live /\ orders[j].left = orders[j].qty
             /\ \A j \in DOMAIN orders : Mine(j, "second") => j # i /\ ~orders'[j].live
             /\ ShortAt(units', Second) = pending.qty
    <2>1. /\ \A l \in Legs : thread[l].pc # "second"
          /\ \A j \in DOMAIN orders : Mine(j, "second") => ~orders[j].live /\ orders[j].left = orders[j].qty
        BY <1>f, <1>g DEF Clean, SecondIsOff
    <2>2. \A j \in DOMAIN orders : Mine(j, "second") => j # i /\ orders'[j] = orders[j]
        BY <1>c, <2>1
    <2>3. CASE Has("second")
        <3>1. PICK j \in DOMAIN orders : Mine(j, "second")
            BY <2>3 DEF Has
        <3>2. orders[j].qty = pending.qty
            BY <3>1, OrderRole DEF Mine
        <3> QED  BY <1>a, <2>1, <2>2, <3>1, <3>2
    <2>4. CASE ~Has("second")
        BY <1>a, <2>1, <2>2, <2>4
    <2> QED  BY <2>3, <2>4
<1>1. CASE \A l \in Legs : units'[l] = pending.target[l]
    <2>1. ShortAt(units', pending.first) = 0 /\ ShortAt(units', Second) = 0
        BY <1>1, <1>g DEF ShortAt
    <2>2. ~Failed
        BY <1>f, <1>g, <2>1
    <2>3. Has("second")
        BY <1>a, <1>g, <2>1
    <2>4. ~Has("flatten") /\ ~pending.handled
        BY <1>g, <2>2 DEF Clean, Flags, Failed
    <2>5. \A j \in DOMAIN orders : Mine(j, "first") \/ Mine(j, "second") => orders'[j].left = 0
        BY <1>a, <2>1, <2>4
    <2>6. \A j \in DOMAIN orders : ~orders'[j].live
        <3>1. ASSUME NEW j \in DOMAIN orders, orders'[j].live PROVE FALSE
            <4>1. orders[j].live
                BY <1>c, <3>1 DEF Changed
            <4>2. Mine(j, "first") \/ Mine(j, "second")
                BY <1>r, <2>4, <4>1 DEF Roles, Has
            <4> QED  BY <1>c, <2>5, <3>1, <4>2
        <3> QED  BY <3>1
    <2>7. \A l \in Legs : thread[l].pc \notin {"second", "flatten"}
        BY <1>g, <2>3, <2>4, GoodFacts DEF Clean, SecondJobs, FlattenJobs
    <2> QED  BY <1>1, <1>g, <2>6, <2>7
<1>2. CASE pending.handled /\ \A l \in Legs : units'[l] = 0
    <2>1. Failed
        BY <1>2 DEF Failed
    <2>2. ShortAt(units', pending.first) = pending.qty
        <3>1. pending.target[pending.first] = pending.target[Second]
            BY <1>g DEF Legs
        <3>2. ShortAt(units', pending.first) = ShortAt(units', Second)
            BY <1>2, <1>g, <3>1 DEF ShortAt
        <3> QED  BY <1>f, <2>1, <3>2
    <2>3. FirstDone
        BY <1>2, <1>g DEF Clean, FailureAfterFirst
    <2>4. orders[a].left = 0 /\ ~orders[a].live /\ a # i
        <3>1. orders[a].left = 0
            BY <1>o, <1>p, <2>3 DEF FirstDone, Roles
        <3> QED  BY <1>c, <3>1
    <2>5. orders'[a] = orders[a]
        BY <1>c, <2>4
    <2>6. Has("flatten")
        BY <1>a, <1>g, <1>p, <2>2, <2>4, <2>5
    <2>7. PICK b \in DOMAIN orders : Mine(b, "flatten")
        BY <2>6 DEF Has
    <2>8. orders'[b].left = 0
        <3>1. orders[b].qty = pending.qty /\ orders'[b].qty = orders[b].qty /\ orders'[b].left \in Int
            <4>1. orders'[b] \in Orders /\ orders'[b].qty = orders[b].qty
                BY <1>c DEF Changed
            <4>2. orders[b].qty = pending.qty
                BY <2>7, OrderRole DEF Mine
            <4>3. \A o \in Orders : o.left \in Int
                BY DEF Orders
            <4> QED  BY <4>1, <4>2, <4>3
        <3>2. pending.qty = 0 + orders'[b].qty - orders'[b].left
            BY <1>a, <1>p, <2>2, <2>4, <2>5, <2>7
        <3> QED  BY <1>g, <3>1, <3>2
    <2>9. \A j \in DOMAIN orders : ~orders'[j].live
        <3>1. ASSUME NEW j \in DOMAIN orders, orders'[j].live PROVE FALSE
            <4>1. orders[j].live /\ orders'[j].left > 0
                BY <1>c, <3>1 DEF Changed
            <4>2. Mine(j, "first") \/ Mine(j, "second") \/ Mine(j, "flatten")
                BY <1>r, <4>1 DEF Roles
            <4>3. CASE Mine(j, "first")
                <5>1. j = a
                    BY <1>o, <1>p, <4>3 DEF Roles
                <5> QED  BY <2>4, <4>1, <5>1
            <4>4. CASE Mine(j, "second")
                BY <1>f, <2>1, <4>1, <4>4
            <4>5. CASE Mine(j, "flatten")
                <5>1. j = b
                    BY <1>o, <2>7, <4>5 DEF Roles
                <5> QED  BY <2>8, <4>1, <5>1
            <4> QED  BY <4>2, <4>3, <4>4, <4>5
        <3> QED  BY <3>1
    <2>10. \A l \in Legs : thread[l].pc \notin {"second", "flatten"}
        BY <1>f, <1>g, <2>1, <2>6, GoodFacts DEF Clean, FlattenJobs
    <2> QED  BY <1>2, <1>g, <2>9, <2>10
<1> QED  BY <1>1, <1>2 DEF Released

LEMMA CleanFill == ASSUME Good, Typed', NEW i \in DOMAIN orders, NEW k \in 1..orders[i].left, Fill(i, k) PROVE Clean'
<1> DEFINE o == orders[i]
<1>f. /\ units' = [units EXCEPT ![orders[i].leg] = @ + orders[i].sign * k]
      /\ orders' = [orders EXCEPT ![i].left = orders[i].left - k, ![i].live = k < orders[i].left]
      /\ orders[i].live
    BY DEF Fill
<1>g. /\ Typed /\ TypeOK /\ PendingTyped /\ Clean /\ Legs \subseteq Threads /\ "main" \in Threads
      /\ thread[o.leg] = Idle /\ o.live /\ o.leg \in Legs /\ o.pid = started
      /\ o.role \in Roles /\ o.leg # "main"
      /\ UNCHANGED <<blocks, started>> /\ (Locked' <=> Locked)
    BY GoodFacts, OrderTypes DEF Fill, Locked, Legs, Clean, Current, Roles
<1>c. /\ Changed /\ orders'[i].left = o.left - k
      /\ \A j \in DOMAIN orders : j # i => orders'[j] = orders[j]
    BY <1>f, <1>g, FillChanges
<1>t. /\ thread'[o.leg].pc = "filled" /\ thread'["main"] = thread["main"]
      /\ \A u \in Threads : u # o.leg => thread'[u] = thread[u]
      /\ thread[o.leg].pc = "idle"
    <2>1. Goes(o.leg, [pc |-> "filled"])
        BY DEF Fill
    <2> QED  BY <2>1, <1>g, GoesOn DEF Idle
<1>p. /\ thread["main"].pc # "place"
      /\ thread["main"].pc = "store" => thread["main"].p.sent = {} /\ ~thread["main"].p.handled
    BY <1>g, NotPlacing DEF Clean, Placing
<1>m. /\ \A j \in DOMAIN orders, r \in Roles : Mine(j, r)' <=> Mine(j, r)
      /\ \A r \in Roles : Has(r)' <=> Has(r)
      /\ FirstDone => FirstDone'
    BY <1>g, <1>c, ChangedOrders
<1>w. \A u \in Threads : Working(u)' => thread'[u] = thread[u]
    BY <1>t DEF Working
<1>1. CASE ~Waits
    <2>1. ~Waits'
        BY <1>1 DEF Fill, Waits
    <2>2. FlattenTif = "IOC" => Unlocked'
        BY <1>1, <1>g DEF Clean, Unlocked, NoneLive
    <2> QED  BY <1>g, <1>c, <1>t, <1>p, <1>w, <2>1, <2>2, Frees
<1>2. CASE Waits /\ Released(units')
    <2>1. ~Waits'
        BY <1>2, <1>f DEF Fill, Waits
    <2>2. FlattenTif = "IOC" => Unlocked'
        <3> SUFFICES ASSUME FlattenTif = "IOC", ~Locked' PROVE Unlocked'
            BY DEF Unlocked
        <3>1. /\ units'["stock"] = units'["future"]
              /\ \A j \in DOMAIN orders : ~orders'[j].live
              /\ \A l \in Legs : thread[l].pc \notin {"second", "flatten"}
            BY <1>2, <1>f, <1>g, FillReleases
        <3>2. \A l \in Legs : thread'[l].pc \notin {"second", "flatten"}
            BY <1>g, <1>t, <3>1
        <3> QED  BY <1>c, <2>1, <3>1, <3>2 DEF Unlocked, Balanced, NoneLive, Changed
    <2> QED  BY <1>g, <1>c, <1>t, <1>p, <1>w, <2>1, <2>2, Frees
<1>3. CASE Waits /\ ~Released(units')
    <2>0. UNCHANGED <<pending, started>> /\ Second' = Second /\ Waits'
        BY <1>3, <1>f, <1>g DEF Fill, Waits, Second
    <2>h. /\ Has("first")' <=> Has("first")
          /\ Has("second")' <=> Has("second")
          /\ Has("flatten")' <=> Has("flatten")
          /\ Has("first")
        BY <1>3, <1>g, <1>m, NotPlacing DEF Roles
    <2>l. \A u \in Threads : thread'[u].pc \in {"second", "flatten"} => thread'[u] = thread[u]
        BY <1>t
    <2>1. Current'
        <3>1. \A j \in DOMAIN orders' : orders'[j].live => orders'[j].pid = started
            BY <1>g, <1>c DEF Clean, Current, Changed
        <3> QED  BY <1>g, <2>l, <3>1 DEF Clean, Current
    <2>2. OnePlan'
        <3>1. PICK s \in {1, -1}, q \in Nat \ {0}, f \in Legs : Plan(s, q, f)
            BY <1>g DEF Clean, OnePlan
        <3>2. \A t \in Threads : Working(t)' => thread'[t].p.sign = s /\ thread'[t].p.qty = q /\ thread'[t].p.first = f
            BY <1>w, <3>1 DEF Plan, Working
        <3>3. Waits' => pending'.sign = s /\ pending'.qty = q /\ pending'.first = f
            BY <1>3, <2>0, <3>1 DEF Plan
        <3>4. Plan(s, q, f)'
            BY <1>g, <1>c, <3>1, <3>2, <3>3, ChangedOrders DEF Plan
        <3> QED  BY <3>4 DEF OnePlan
    <2>3. Placing'
        BY <1>p, <1>t DEF Placing
    <2>4. OnceEach' /\ AfterFirst'
        BY <1>g, <1>c, ChangedOrders DEF Clean
    <2>5. SecondJobs'
        <3>1. SecondJobs /\ Legs \subseteq Threads
            BY <1>g DEF Clean
        <3>2. FirstDone => FirstDone'
            BY <1>m
        <3>3. \A l \in Legs : thread'[l].pc = "second" => thread'[l] = thread[l]
            BY <2>l, <3>1
        <3> QED  BY <1>3, <2>0, <2>h, <3>1, <3>2, <3>3 DEF SecondJobs
    <2>6. FlattenJobs'
        BY <1>3, <1>g, <1>m, <2>0, <2>h, <2>l DEF Clean, FlattenJobs
    <2>7. FailureAfterFirst'
        <3>1. \A u \in Threads : thread'[u].pc = "failing" => thread[u].pc = "failing"
            BY <1>t
        <3> QED  BY <1>3, <1>g, <1>m, <2>0, <3>1 DEF Clean, FailureAfterFirst
    <2>8. Flags'
        BY <1>3, <1>g, <1>t, <2>0, <2>h DEF Clean, Flags
    <2>9. SecondIsOff'
        <3>1. Failed' => Failed
            BY <1>g, <1>t, <2>0 DEF Failed
        <3>2. \A l \in Legs : thread'[l].pc = "second" => thread[l].pc = "second"
            BY <1>g, <1>t
        <3>3. ASSUME \A j \in DOMAIN orders : Mine(j, "second") => ~orders[j].live /\ orders[j].left = orders[j].qty
              PROVE  \A j \in DOMAIN orders' : Mine(j, "second")' => ~orders'[j].live /\ orders'[j].left = orders'[j].qty
            <4>1. \A j \in DOMAIN orders : Mine(j, "second") => orders'[j] = orders[j]
                BY <1>c, <1>g, <3>3
            <4>2. DOMAIN orders' = DOMAIN orders
                BY <1>c DEF Changed
            <4>3. \A j \in DOMAIN orders : Mine(j, "second")' <=> Mine(j, "second")
                BY <1>m DEF Roles
            <4> QED  BY <3>3, <4>1, <4>2, <4>3
        <3>4. Waits /\ Failed /\ (pending.first \notin pending.sent \/ ~Locked) =>
                 /\ Second \in pending.sent
                 /\ \A l \in Legs : thread[l].pc # "second"
                 /\ \A j \in DOMAIN orders : Mine(j, "second") => ~orders[j].live /\ orders[j].left = orders[j].qty
            BY <1>g DEF Clean, SecondIsOff
        <3>5. ASSUME Failed', pending'.first \notin pending'.sent \/ ~Locked'
              PROVE  /\ Second' \in pending'.sent
                     /\ \A l \in Legs : thread'[l].pc # "second"
                     /\ \A j \in DOMAIN orders' : Mine(j, "second")' => ~orders'[j].live /\ orders'[j].left = orders'[j].qty
            <4>1. Waits /\ Failed /\ (pending.first \notin pending.sent \/ ~Locked)
                BY <1>3, <1>g, <2>0, <3>1, <3>5
            <4>2. \A j \in DOMAIN orders' : Mine(j, "second")' => ~orders'[j].live /\ orders'[j].left = orders'[j].qty
                BY <3>3, <3>4, <4>1
            <4> QED  BY <2>0, <3>2, <3>4, <4>1, <4>2
        <3> QED  BY <3>5 DEF SecondIsOff
    <2>10. FlattenTif = "IOC" => Unlocked'
        BY <1>3, <1>g, <2>0 DEF Clean, Unlocked
    <2>11. Amounts'
        <3>1. /\ \A a \in DOMAIN orders : Mine(a, "first") =>
                    /\ ~Has("flatten") => ShortAt(units', pending.first) = orders'[a].left
                    /\ \A b \in DOMAIN orders : Mine(b, "flatten") =>
                          ShortAt(units', pending.first) = orders'[a].left + orders'[b].qty - orders'[b].left
              /\ ~Has("second") => ShortAt(units', Second) = pending.qty
              /\ \A b \in DOMAIN orders : Mine(b, "second") => ShortAt(units', Second) = orders'[b].left
            BY <1>3, <1>f, FillAmounts
        <3>2. /\ Short(pending.first)' = ShortAt(units', pending.first)
              /\ Short(Second)' = ShortAt(units', Second)
            BY <2>0 DEF Short, ShortAt, Second
        <3>3. \E l \in Legs : Short(l)' # 0
            <4>1. PICK l \in Legs : units'[l] # pending.target[l]
                BY <1>3 DEF Released
            <4>2. units'[l] \in Int /\ pending.target[l] \in Int
                BY <1>3, <1>g, PendingFacts DEF Typed, TypeOK
            <4>3. Short(l)' # 0
                BY <2>0, <4>1, <4>2 DEF Short, ShortAt
            <4> QED  BY <4>3
        <3>4. DOMAIN orders' = DOMAIN orders
            BY <1>c DEF Changed
        <3>5. \A j \in DOMAIN orders : /\ Mine(j, "first")' <=> Mine(j, "first")
                                       /\ Mine(j, "second")' <=> Mine(j, "second")
                                       /\ Mine(j, "flatten")' <=> Mine(j, "flatten")
            BY <1>m DEF Roles
        <3> QED  BY <2>0, <2>h, <3>1, <3>2, <3>3, <3>4, <3>5 DEF Amounts
    <2> QED  BY <2>1, <2>2, <2>3, <2>4, <2>5, <2>6, <2>7, <2>8, <2>9, <2>10, <2>11 DEF Clean
<1> QED  BY <1>1, <1>2, <1>3

-----------------------------------------------------------------------------
\* The invariant, and what follows from it.

LEMMA InvStep == Inv /\ [Next]_vars => Inv'
<1> SUFFICES ASSUME Inv, [Next]_vars PROVE Inv'
    OBVIOUS
<1>1. Typed /\ Typed'
    BY TypedStep DEF Inv, Typed
<1>2. ASSUME clean' PROVE clean
    BY <1>1, <1>2 DEF Next, vars, Main, Callback, Failure, Broker, Evaluate, Route, Store, PlaceFirst, MarkSent,
          Overdue, Expire, Defer, PlaceSecond, SecondFails, PlaceFlatten, Fill, Report, PartialReport, CancelRest,
          CooldownEnds
<1>3. ASSUME clean' PROVE Clean'
    <2>1. Good
        BY <1>1, <1>2, <1>3 DEF Inv, Good
    <2>2. CASE Main
        BY <1>1, <1>3, <2>1, <2>2, CleanEvaluate, CleanRoute, CleanStore, CleanPlaceFirst, CleanMarkSent,
           CleanOverdue, CleanExpire DEF Main
    <2>3. ASSUME NEW l \in Legs, Callback(l) PROVE Clean'
        BY <1>1, <2>1, <2>3, CleanDefer, CleanPlaceSecond DEF Callback
    <2>4. ASSUME NEW t \in Threads, Failure(t) PROVE Clean'
        BY <1>1, <2>1, <2>4, CleanSecondFails, CleanPlaceFlatten DEF Failure
    <2>5. ASSUME NEW i \in DOMAIN orders, Broker(i) PROVE Clean'
        BY <1>1, <2>1, <2>5, CleanFill, CleanReport, CleanPartialReport, CleanCancelRest DEF Broker
    <2>6. CASE CooldownEnds
        BY <1>1, <2>1, <2>6, CleanCooldownEnds
    <2>7. CASE UNCHANGED vars
        <3>1. Changed /\ \A j \in DOMAIN orders : orders'[j].left = orders[j].left
            BY <2>1, <2>7, GoodFacts, SameChanges DEF vars
        <3> QED  BY <1>1, <2>1, <2>7, <3>1, GoodFacts, Frame DEF vars, Locked, Clean, Placing
    <2> QED  BY <2>2, <2>3, <2>4, <2>5, <2>6, <2>7 DEF Next
<1> QED  BY <1>1, <1>3 DEF Inv, Typed

LEMMA Invariance == Spec => []Inv
BY InitInv, InvStep, PTL DEF Spec

\* The orders the broker accepts follow the plan of the pair order, however fill
\* callbacks, timeouts and the calls that place orders interleave: a leg is sent
\* once, and the second leg and the flatten order only after a whole first fill.
THEOREM PlanIsFollowed == Spec => []OrdersFollowThePlan
<1>1. Inv => OrdersFollowThePlan
    <2> SUFFICES ASSUME Inv, clean, NEW j \in DOMAIN orders
                 PROVE  /\ \A i \in 1..(j - 1) : ~(orders[i].pid = orders[j].pid /\ orders[i].role = orders[j].role)
                        /\ orders[j].role # "first" =>
                              \E i \in 1..(j - 1) : /\ orders[i].pid = orders[j].pid
                                                    /\ orders[i].role = "first" /\ orders[i].left = 0
        BY DEF OrdersFollowThePlan
    <2>1. OnceEach /\ AfterFirst /\ TypeOK
        BY DEF Inv, Clean
    <2>2. ASSUME NEW i \in 1..(j - 1), orders[i].pid = orders[j].pid, orders[i].role = orders[j].role PROVE FALSE
        <3>1. i \in DOMAIN orders /\ i # j
            BY <2>1, <2>2, OrderTypes
        <3> QED  BY <2>1, <2>2, <3>1 DEF OnceEach
    <2> QED  BY <2>1, <2>2 DEF AfterFirst
<1> QED  BY <1>1, Invariance, PTL

\* With an immediate-or-cancel flatten order, a position with one leg filled and
\* not the other is never forgotten: once the threads and the broker rest, the
\* pair order is still pending or new entries are locked or disabled.
THEOREM NakedLegStaysHeld == ASSUME FlattenTif = "IOC" PROVE Spec => []NakedLegIsHeld
<1>1. Inv => NakedLegIsHeld
    BY DEF Inv, Clean, NakedLegIsHeld, Unlocked, Locked, Waits
<1> QED  BY <1>1, Invariance, PTL
=============================================================================
