------------------------------- MODULE MCCache -------------------------------
(***************************************************************************)
(* Small caches for TLC.  Either one builder works alone, on two requests   *)
(* and beside a reader, or both build for one request; readers change       *)
(* nothing that builders see, and builders are interchangeable.             *)
(***************************************************************************)
EXTENDS CachePublication, TLC

VARIABLE active

Alone == Cardinality(active) = 1

\* the request of two builders that work on one date
Common == CHOOSE q \in Requests : TRUE

MCInit == Init /\ active \in {Builders} \cup {{b} : b \in Builders}

MCNext ==
    /\ Next
    /\ \A b \in Builders \ active : pc'[b] = "idle"
    /\ ~ Alone => /\ \A b \in Builders : asked'[b] \in {Common, NoRequest}
                  /\ \A r \in Readers : pc'[r] = "idle"
    /\ UNCHANGED active

MCSpec == MCInit /\ [][MCNext]_<<vars, active>>

BuilderSymmetry == Permutations(Builders)

-----------------------------------------------------------------------------
\* What one builder is promised and two are not: between its validation and
\* its answer the other may publish (store.py:189).

\* The cache stays within its limit, temporaries leaked by a crash included,
\* although the space is checked once, from an estimate, before the scan.
BudgetHeldAlone == Alone => BudgetHeld

\* A reader is given a whole partition, at least as new as the raw files were
\* when it asked, although it resolves the path again after it validated; and
\* a successful build hands its caller a date with the identity it asked for,
\* whether it found the date there or built it.
AnswersAreCurrentAlone ==
    [][Alone =>
          /\ \A r \in Readers : Answered(r, {"read"}) =>
                /\ Whole(outcome'[r].build)
                /\ since[r] <= part[outcome'[r].build].claims
          /\ \A b \in Builders : Answered(b, {"hit", "miss"}) =>
                LET given == part[outcome'[b].build]
                IN  given.claims = wanted[b] /\ given.request = asked[b]]_vars
=============================================================================
