--------------------------- MODULE MC_Timekeeper ----------------------------
(* Three timers with coprime, equal and nested periods, so that expiries   *)
(* coincide, alternate and fall inside one request; requests shorter than, *)
(* equal to and several times longer than the periods.                     *)
EXTENDS Timekeeper

MCPeriod == <<2, 3, 4>>
MCRequests == {1, 2, 5, 7}

=============================================================================
