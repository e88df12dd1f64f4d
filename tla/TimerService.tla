---------------------------- MODULE TimerService ----------------------------
(***************************************************************************)
(* The abstract contract of the emulator's clock: time moves forward in    *)
(* arbitrary steps but never past the moment a timer is due, and a due     *)
(* timer is served once before time moves on.  Requests, countdowns and    *)
(* the recursion of timekeeper_advance_clk are invisible here.             *)
(***************************************************************************)
EXTENDS Integers

CONSTANTS NTimers, Period

VARIABLES now, fired

Due(i) == (fired[i] + 1) * Period[i]

Init == now = 0 /\ fired = [i \in 1..NTimers |-> 0]

Elapse == /\ now' \in Int
          /\ now' > now
          /\ \A i \in 1..NTimers : now < Due(i) /\ now' <= Due(i)
          /\ UNCHANGED fired

Serve(i) == /\ now = Due(i)
            /\ fired' = [fired EXCEPT ![i] = @ + 1]
            /\ UNCHANGED now

Next == Elapse \/ \E i \in 1..NTimers : Serve(i)

Spec == Init /\ [][Next]_<<now, fired>>
FairSpec == Spec /\ \A i \in 1..NTimers : WF_<<now, fired>>(Serve(i))
=============================================================================
