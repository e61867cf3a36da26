------------------------------ MODULE MCLedger ------------------------------
(* One priced remote model, whose calls report all or nothing of what they *)
(* used, and one without prices, whose calls report half of it.            *)
EXTENDS Ledger

MCRates == [m \in {"local", "cloud"} |-> IF m = "cloud" THEN [input |-> 2, output |-> 3]
                                          ELSE [input |-> Absent, output |-> Absent]]
MCUsages == [m \in {"local", "cloud"} |->
    IF m = "cloud" THEN {[input |-> 1, output |-> 2], [input |-> 0, output |-> 0]}
    ELSE {[input |-> 5, output |-> 0]}]
MCRoutes == {[task |-> "edit", model |-> "cloud"], [task |-> "ask", model |-> "local"]}

\* For the runs about the order of events.
OneUsage == [m \in {"local", "cloud"} |-> IF m = "cloud" THEN {[input |-> 1, output |-> 2]} ELSE {}]
OneRoute == {[task |-> "edit", model |-> "cloud"]}
CallsEach == [t \in TurnIds |-> 1]
PlanCallsTwice == [t \in TurnIds |-> IF t \in PlanTurns THEN 2 ELSE 1]
OnlyPlansCall == [t \in TurnIds |-> IF t \in PlanTurns THEN 1 ELSE 0]
Turns == Permutations(TurnIds)
=============================================================================
