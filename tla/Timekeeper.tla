----------------------------- MODULE Timekeeper -----------------------------
(***************************************************************************)
(* The master clock of the emulator (emu/timekeeper.c).  A device driver   *)
(* asks timekeeper_advance_clk for a number of master cycles; the function *)
(* splits the request at the next expiry of any timer, moves the clock,    *)
(* sweeps the timers in registration order, fires those that expire and    *)
(* recurses on what is left.  The callback of a timer (ppu.c's step) runs  *)
(* in the middle of the sweep and reloads its own countdown.               *)
(*                                                                         *)
(* The steps of the sweep are separate actions, because a callback runs    *)
(* between them and can observe the clock: what it sees is what the        *)
(* properties below are about.                                             *)
(***************************************************************************)
EXTENDS Integers

CONSTANTS NTimers,    \* tk->ntimers
          Period,     \* Period[i]: what the callback of timer i reloads
          Requests,   \* the cycle counts that callers ask for
          MaxClk      \* bound on the modelled clock (uint64_t in the code)

ASSUME NTimersAssumption  == NTimers \in Nat
ASSUME PeriodAssumption   == Period \in [1..NTimers -> Nat \ {0}]
ASSUME RequestsAssumption == Requests \subseteq Nat
ASSUME MaxClkAssumption   == MaxClk \in Nat

Timers == 1..NTimers

VARIABLES clk_cyclenum,  \* master cycles since the reset
          countdown,     \* *timers[i].countdown
          phase,         \* where the caller is: "off" before the reset,
                         \* "idle" outside the function, "sweep" in its loop
          ncycles,       \* argument of the current (recursive) call
          mincount,      \* cycles taken by the current call
          next,          \* loop variable of the sweep
          fires,         \* history: callbacks of timer i since the reset
          asked          \* history: cycles requested since the reset

vars == <<clk_cyclenum, countdown, phase, ncycles, mincount, next, fires, asked>>

(***************************************************************************)
(* The shortest of n and the countdowns: the loop at the head of the       *)
(* function.                                                               *)
(***************************************************************************)
IsMinCount(m, n) ==
  /\ m \in {n} \cup {countdown[i] : i \in Timers}
  /\ m <= n
  /\ \A i \in Timers : m <= countdown[i]

-----------------------------------------------------------------------------

Init ==
  /\ clk_cyclenum = 0
  /\ countdown = [i \in Timers |-> 0]      \* rc_alloc zeroes the devices
  /\ phase = "off"
  /\ ncycles = 0 /\ mincount = 0 /\ next = 1
  /\ fires = [i \in Timers |-> 0]
  /\ asked = 0

(* reset_manager_issue_reset at power-on: the clock and every timer device *)
(* are reset before the first cycle is asked for.                          *)
Reset ==
  /\ phase = "off"
  /\ phase' = "idle"
  /\ clk_cyclenum' = 0
  /\ countdown' = Period
  /\ fires' = [i \in Timers |-> 0]
  /\ asked' = 0
  /\ UNCHANGED <<ncycles, mincount, next>>

(* Mutant: the clock takes the whole request before the timers are swept.  *)
Mutant_EnterWholeRequest(n) ==
  \E m \in {n} \cup {countdown[i] : i \in Timers} :
    /\ IsMinCount(m, n)
    /\ mincount' = m
    /\ ncycles' = n
    /\ clk_cyclenum' = clk_cyclenum + n
    /\ next' = 1

(* Entering the function with n cycles, from a device or from itself.      *)
Enter(n) ==
  \E m \in {n} \cup {countdown[i] : i \in Timers} :
    /\ IsMinCount(m, n)
    /\ mincount' = m
    /\ ncycles' = n
    /\ clk_cyclenum' = clk_cyclenum + m
    /\ next' = 1

AdvanceClk(n) ==
  /\ phase = "idle"
  /\ clk_cyclenum + n <= MaxClk
  /\ Enter(n)
  /\ phase' = "sweep"
  /\ asked' = asked + n
  /\ UNCHANGED <<countdown, fires>>

(* One turn of the loop for a timer that does not expire ...               *)
Tick ==
  /\ phase = "sweep"
  /\ next <= NTimers
  /\ countdown[next] # mincount
  /\ countdown' = [countdown EXCEPT ![next] = @ - mincount]
  /\ next' = next + 1
  /\ UNCHANGED <<clk_cyclenum, phase, ncycles, mincount, fires, asked>>

(* Mutant: the callback does not reload its countdown.                     *)
Mutant_FireNoReload ==
  /\ phase = "sweep"
  /\ next <= NTimers
  /\ countdown[next] = mincount
  /\ countdown' = [countdown EXCEPT ![next] = 0]
  /\ fires' = [fires EXCEPT ![next] = @ + 1]
  /\ next' = next + 1
  /\ UNCHANGED <<clk_cyclenum, phase, ncycles, mincount, asked>>

(* Mutant: the sweep ends at the first timer that fires.                   *)
Mutant_FireBreak ==
  /\ phase = "sweep"
  /\ next <= NTimers
  /\ countdown[next] = mincount
  /\ countdown' = [countdown EXCEPT ![next] = Period[next]]
  /\ fires' = [fires EXCEPT ![next] = @ + 1]
  /\ next' = NTimers + 1
  /\ UNCHANGED <<clk_cyclenum, phase, ncycles, mincount, asked>>

(* ... and for one that does: its callback runs and reloads it.            *)
Fire ==
  /\ phase = "sweep"
  /\ next <= NTimers
  /\ countdown[next] = mincount
  /\ countdown' = [countdown EXCEPT ![next] = Period[next]]
  /\ fires' = [fires EXCEPT ![next] = @ + 1]
  /\ next' = next + 1
  /\ UNCHANGED <<clk_cyclenum, phase, ncycles, mincount, asked>>

(* Mutant: the recursion asks for the whole request again.                 *)
Mutant_RecurseWhole ==
  /\ phase = "sweep"
  /\ next > NTimers
  /\ mincount # ncycles
  /\ Enter(ncycles)
  /\ UNCHANGED <<countdown, phase, fires, asked>>

(* Mutant: the recursion is not guarded by mincount != ncycles.            *)
Mutant_RecurseAlways ==
  /\ phase = "sweep"
  /\ next > NTimers
  /\ Enter(ncycles - mincount)
  /\ UNCHANGED <<countdown, phase, fires, asked>>

(* mincount != ncycles: what is left of the request is asked for again.    *)
Recurse ==
  /\ phase = "sweep"
  /\ next > NTimers
  /\ mincount # ncycles
  /\ Enter(ncycles - mincount)
  /\ UNCHANGED <<countdown, phase, fires, asked>>

Return ==
  /\ phase = "sweep"
  /\ next > NTimers
  /\ mincount = ncycles
  /\ phase' = "idle"
  /\ UNCHANGED <<clk_cyclenum, countdown, ncycles, mincount, next, fires, asked>>

Next ==
  \/ Reset
  \/ \E n \in Requests : AdvanceClk(n)
  \/ Tick \/ Fire \/ Recurse \/ Return

(* The function is sequential code: once entered it keeps running.         *)
Running == Tick \/ Fire \/ Recurse \/ Return

Spec == Init /\ [][Next]_vars
FairSpec == Spec /\ WF_vars(Running)

-----------------------------------------------------------------------------

TypeOK ==
  /\ clk_cyclenum \in Nat
  /\ countdown \in [Timers -> Nat]
  /\ phase \in {"off", "idle", "sweep"}
  /\ ncycles \in Nat
  /\ mincount \in 0..ncycles
  /\ next \in 1..(NTimers + 1)
  /\ fires \in [Timers -> Nat]
  /\ asked \in Nat

(* Cycles timer i has been charged for: whole periods plus the part of the *)
(* current one.                                                            *)
Charged(i) == fires[i] * Period[i] + Period[i] - countdown[i]

(***************************************************************************)
(* No timer drifts: whatever the splits of the requests were, each timer   *)
(* has been charged for exactly the cycles of the clock -- in the middle   *)
(* of a sweep, the timers after the loop variable are behind by the part   *)
(* the sweep is handing out (timekeeper.c:18-23).                          *)
(***************************************************************************)
ExactCharge ==
  phase # "off" =>
    \A i \in Timers :
      Charged(i) = IF phase = "sweep" /\ i >= next THEN clk_cyclenum - mincount
                                                   ELSE clk_cyclenum

(***************************************************************************)
(* A countdown is never left at 0 or wrapped below it between two sweeps,  *)
(* and the subtraction of the sweep never wraps the uint64_t: a timer that *)
(* stayed at 0 would make the recursion endless, one that wrapped would    *)
(* never fire again.                                                       *)
(***************************************************************************)
CountdownInRange ==
  phase # "off" =>
    \A i \in Timers : /\ countdown[i] \in 1..Period[i]
                      /\ phase = "sweep" /\ i >= next => mincount <= countdown[i]

(***************************************************************************)
(* No cycle is lost or handed out twice by the recursion: the clock plus   *)
(* what the current call still owes is what the callers asked for          *)
(* (timekeeper.c:16,26-28).                                                *)
(***************************************************************************)
NoCycleLost ==
  clk_cyclenum + (IF phase = "sweep" THEN ncycles - mincount ELSE 0) = asked

(***************************************************************************)
(* Every request is served to its end: the recursion terminates.           *)
(***************************************************************************)
AdvanceReturns == phase = "sweep" ~> phase = "idle"

-----------------------------------------------------------------------------
(***************************************************************************)
(* What the clock promises to its devices (see TimerService): a callback   *)
(* runs at the very cycle it is due, however long the request that carried *)
(* the clock there, and the clock does not move on before every callback   *)
(* due at that cycle has run; a due callback does run.                     *)
(***************************************************************************)
Service == INSTANCE TimerService WITH now <- clk_cyclenum, fired <- fires

ServesTimers == Service!FairSpec
=============================================================================
