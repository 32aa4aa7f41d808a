-------------------------------- MODULE MCDays --------------------------------
(* A small instance of DailyRuns: four sets of arguments; "b" ends the first *)
(* date flat.                                                                 *)
EXTENDS DailyRuns

MCKind == [v \in Versions |-> CASE v = "c" -> "full" [] v = "d" -> "independent" [] OTHER -> "summary"]
MCCloses == {<<"b", 1>>}
=============================================================================
