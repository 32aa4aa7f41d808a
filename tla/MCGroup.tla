------------------------------- MODULE MCGroup -------------------------------
(* Small instances of DateBacktests: two pairs of one spot and one of        *)
(* another, whose data is the heaviest.                                      *)
EXTENDS DateBacktests

MCSpotOf == [k \in Keys |-> IF k = 3 THEN "other" ELSE "shared"]
MCFutureOf == <<"near", "next", "near of other">>
MCTimes == 0..4
MCEventRows == [k \in Keys |-> k]
MCOptions == [cooldown : BOOLEAN, workers : {1, 2}]
MCLibraries == {<<"unset", <<"missing", "good">>>>, <<"other_abi", <<"good">>>>}

Asked(compact, rebuild, convert, daily) ==
    [compact : {compact}, rebuild : {rebuild}, convert : {convert}, daily : {daily},
     proceed : BOOLEAN]
MCRequests ==
    Asked(FALSE, FALSE, TRUE, TRUE) \cup Asked(FALSE, TRUE, TRUE, TRUE)
    \cup Asked(FALSE, FALSE, FALSE, TRUE) \cup Asked(FALSE, FALSE, TRUE, FALSE)
    \cup Asked(TRUE, FALSE, TRUE, TRUE)
=============================================================================
